---- MODULE Spec2Model ----
(***************************************************************************)
(* Update sequencing of the grammers client: Client::next_raw_update,      *)
(* Client::process_socket_updates and Client::extend_update_queue          *)
(* (grammers-client/src/client/updates.rs) on top of the session crate's   *)
(* MessageBox, whose source is not part of this tree and is modelled from  *)
(* its specification.                                                      *)
(***************************************************************************)
EXTENDS Integers, Sequences, FiniteSets, TLC

(* ------------------------------ bounds --------------------------------- *)
\* Largest pts the server ever hands out.
MaxPts == 2
\* Largest number of containers in one process_socket_updates call.
MaxBatch == 2
\* Cap on the number of updates MessageBox applies in one behaviour.
MaxApplied == 3
\* Largest update_queue_limit tried (queue specification).
MaxLimit == 3
\* Largest incoming batch handed to extend_update_queue (queue specification).
MaxExtend == 3
\* Cap on the number of updates handed to the queue (queue specification).
MaxStamp == 8
\* Number of tasks that call next_raw_update on the same client.
NumTasks == 2
\* Largest number of updates buffered in one box's possible_gap.
MaxPending == 1
\* Largest pts_count of an update (box specification).
MaxPtsCount == 2
\* Largest qts, seq and date of a session snapshot (session specification).
MaxSeq == 1
\* The pts the common box starts from (gap specification).
GapStart == 100
\* How far ahead of the start the updates of a small gap reach.
GapNear == 3
\* The pts of the update that opens a hard gap.
GapTop == 110
\* The pts of an update from before the start.
GapStale == 95
\* Largest number of updates buffered by the common box (gap specification).
GapMaxPending == 2
\* Largest seq of a container (seq specification).
SeqTop == 2
\* Largest value of the clock, in seconds (warning specification).
MaxNow == 700
\* The shorter of the two steps of the clock, in seconds: two of them make
\* the cooldown exactly, one and the longer one make it plus one second.
ClockStep == 150
\* How many times the common box's deadline is reached in one behaviour
\* (priority specification).
MaxCommonDue == 2
\* usize::MAX, with usize scaled down to 4 bits.
UsizeMax == 15
\* Largest `attempts` of a Fixed policy (retry specification).
MaxAttempts == 3
\* Largest delay of a Fixed policy, in seconds (retry specification).
MaxDelay == 2
\* Largest value and largest error the body of retrying! evaluates to.
MaxValue == 2
\* Largest number of parameters of a TL definition (codec specification).
MaxParams == 3
\* Largest bit index a conditional parameter uses (codec specification).
MaxFlagIndex == 1
\* Largest value of an int parameter (codec specification).
MaxInt == 2
\* Largest access hash of an entity (peer specification).
MaxHash == 2
\* Largest number of entities in one extend call (peer specification).
MaxEntities == 2

(* --------------------------- program constants ------------------------- *)
\* UPDATE_LIMIT_EXCEEDED_LOG_COOLDOWN, in seconds.
UPDATE_LIMIT_EXCEEDED_LOG_COOLDOWN == 300

(* Option<T>: None is the empty tuple, Some(x) the one-element tuple. *)
None == << >>
Some(x) == << x >>
IsSome(o) == o /= None
Unwrap(o) == o[1]

VARIABLES
    updates,                \* state.updates: VecDeque<(Update, Arc<ChatMap>)>
    last_update_limit_warn, \* state.last_update_limit_warn: Option<Instant>
    update_queue_limit,     \* config.params.update_queue_limit: Option<usize>
    now,                    \* Instant::now(), in seconds
    panicked,               \* a task panicked on an arithmetic overflow
    message_box,            \* state.message_box: MessageBox
    chat_hashes,            \* state.chat_hashes: peer -> access hash
    lock,                   \* holder of state's write lock, 0 when free
    pc,                     \* where each task is in next_raw_update
    req,                    \* each task's difference request
    res,                    \* each task's UpdateResult not yet queued
    idx,                    \* each task's position in all_updates
    maybe_response,         \* the error of each task's getChannelDifference in
                            \* this turn of the loop, if it failed
    ret,                    \* what next_raw_update returned to each task
    session,                \* config.session: the persisted update state
    restored,               \* history (session specification): the snapshot
                            \* MessageBox was restored from, no update since
    napplied,               \* history: number of updates applied, per box
    queued,                 \* history: per box, what was appended to the queue
    lastExtend,             \* history (queue specification): the last extend
    lastVerdict,            \* history (box specification): the last update
    drops,                  \* history: how many updates overflowed the queue,
                            \* and how many the warnings of line 249 reported
    retry,                  \* one expansion of retrying!: its policy, its
                            \* attempts, its last res, and what it did so far
    codec                   \* a value of a generated struct, its bytes and
                            \* what deserialize made of them

queueVars == << updates, last_update_limit_warn >>
envVars == << update_queue_limit, now, session, restored, retry, codec >>
callVars == << maybe_response, ret >>
taskVars == << lock, pc, req, res, idx, maybe_response, ret >>
histVars == << napplied, queued, lastExtend, lastVerdict, drops >>
vars == << updates, last_update_limit_warn, update_queue_limit, now, panicked,
           message_box, chat_hashes, lock, pc, req, res, idx,
           maybe_response, ret, session, restored,
           napplied, queued, lastExtend, lastVerdict, drops, retry, codec >>


(* ------------------------------ MessageBox ----------------------------- *)
\* The channels, sorted by channel id.
ChannelOrder == << "c1", "c2" >>
Channels == {ChannelOrder[i] : i \in 1..Len(ChannelOrder)}
Boxes == {"common"} \cup Channels

\* A box that has just been created (pts is 0 before the first sync).
AddBox(mb, b) ==
    IF b \in mb.boxes THEN mb ELSE [mb EXCEPT !.boxes = @ \cup {b}]

BeginGetDiff(mb, b) ==
    [mb EXCEPT !.getting_diff = @ \cup {b}]

\* Mutant of Classify: an update that lands exactly on the box counts as stale.
ClassifyOffByOne(local, u) ==
    LET applying == u.pts - u.count
    IN  IF applying <= local THEN "stale"
        ELSE IF applying = local + 1 THEN "apply"
        ELSE "gap"

\* applying = pts_now - pts_count, compared with local = box.pts.
Classify(local, u) ==
    LET applying == u.pts - u.count
    IN  IF applying < local THEN "stale"
        ELSE IF applying = local THEN "apply"
        ELSE "gap"

\* Mutant of NextReady: only the update that was buffered first is looked at.
NextReadyOldest(pend, local) ==
    IF pend /= << >> /\ Classify(local, pend[1]) = "apply" THEN 1 ELSE 0

\* Index of the buffered update to apply next: in order, lowest pts first.
NextReady(pend, local) ==
    LET ready == {i \in 1..Len(pend) : Classify(local, pend[i]) = "apply"}
    IN  IF ready = {} THEN 0
        ELSE CHOOSE i \in ready :
               \A j \in ready : \/ pend[i].pts < pend[j].pts
                                \/ (pend[i].pts = pend[j].pts /\ i <= j)

RemoveAt(s, i) ==
    SubSeq(s, 1, i - 1) \o SubSeq(s, i + 1, Len(s))

\* Flush possible_gap.pending of box b: discard what has become stale, apply
\* what has become in-order; out collects the applied updates.
RECURSIVE Flush(_, _, _)
Flush(mb, b, out) ==
    LET live == SelectSeq(mb.pending[b],
                          LAMBDA u : Classify(mb.pts[b], u) /= "stale")
        i == NextReady(live, mb.pts[b])
    IN  IF i = 0
        THEN [mb |-> [mb EXCEPT !.pending[b] = live,
                                !.until[b] = IF live = << >> THEN "unset" ELSE @],
              out |-> out]
        ELSE Flush([mb EXCEPT !.pts[b] = live[i].pts,
                              !.pending[b] = RemoveAt(live, i)],
                   b, Append(out, live[i]))

\* Mutant of ApplyPts: every update that arrives ahead restarts the gap
\* window.
ApplyPtsRearms(mb0, u) ==
    LET mb == AddBox(mb0, u.box)
        b == u.box
        verdict == Classify(mb.pts[b], u)
    IN  IF b \in mb.getting_diff
        THEN [mb |-> [mb EXCEPT !.pending[b] = Append(@, u)],
              out |-> << >>, verdict |-> "buffer"]
        ELSE IF verdict = "stale"
        THEN [mb |-> mb, out |-> << >>, verdict |-> verdict]
        ELSE IF verdict = "apply"
        THEN LET f == Flush([mb EXCEPT !.pts[b] = u.pts,
                                       !.deadline[b] = "future"], b, << u >>)
             IN  [mb |-> f.mb, out |-> f.out, verdict |-> verdict]
        ELSE [mb |-> [mb EXCEPT !.pending[b] = Append(@, u),
                                !.until[b] = "armed"],
              out |-> << >>, verdict |-> verdict]

\* The per-update algorithm of an UpdateBox.
ApplyPts(mb0, u) ==
    LET mb == AddBox(mb0, u.box)
        b == u.box
        verdict == Classify(mb.pts[b], u)
    IN  IF b \in mb.getting_diff
        THEN [mb |-> [mb EXCEPT !.pending[b] = Append(@, u)],
              out |-> << >>, verdict |-> "buffer"]
        ELSE IF verdict = "stale"
        THEN [mb |-> mb, out |-> << >>, verdict |-> verdict]
        ELSE IF verdict = "apply"
        THEN LET f == Flush([mb EXCEPT !.pts[b] = u.pts,
                                       !.deadline[b] = "future"], b, << u >>)
             IN  [mb |-> f.mb, out |-> f.out, verdict |-> verdict]
        ELSE [mb |-> [mb EXCEPT !.pending[b] = Append(@, u),
                                !.until[b] = IF @ = "unset" THEN "armed" ELSE @],
              out |-> << >>, verdict |-> verdict]

RECURSIVE ApplyAll(_, _, _)
ApplyAll(mb, ups, out) ==
    IF ups = << >> THEN [mb |-> mb, out |-> out]
    ELSE LET r == ApplyPts(mb, Head(ups))
         IN  ApplyAll(r.mb, Tail(ups), out \o r.out)

\* Mutant of ProcessUpdates: a container from before the box's seq is applied
\* like one that continues it.
ProcessUpdatesSetsBack(mb, c) ==
    IF c.kind = "tooLong" \/ (c.seq /= 0 /\ c.seq_start > mb.seq + 1)
    THEN [ok |-> FALSE, mb |-> BeginGetDiff(mb, "common"), out |-> << >>]
    ELSE LET r == ApplyAll(mb, c.ups, << >>)
         IN  [ok |-> TRUE,
              mb |-> IF c.seq = 0 THEN r.mb
                     ELSE [r.mb EXCEPT !.seq = c.seq, !.date = c.date],
              out |-> r.out]

\* process_updates(container): Err(Gap) for updatesTooLong and for a gap in
\* the container sequence; a container that carries a seq is validated
\* against the box (seq + 1 = seq_start) and one from before the box's seq is
\* not applied; Ok(applied updates) otherwise.
ProcessUpdates(mb, c) ==
    IF c.kind = "tooLong" \/ (c.seq /= 0 /\ c.seq_start > mb.seq + 1)
    THEN [ok |-> FALSE, mb |-> BeginGetDiff(mb, "common"), out |-> << >>]
    ELSE IF c.seq /= 0 /\ c.seq_start < mb.seq + 1
    THEN [ok |-> TRUE, mb |-> mb, out |-> << >>]
    ELSE LET r == ApplyAll(mb, c.ups, << >>)
         IN  [ok |-> TRUE,
              mb |-> IF c.seq = 0 THEN r.mb
                     ELSE [r.mb EXCEPT !.seq = c.seq, !.date = c.date],
              out |-> r.out]

\* check_deadlines(): flip every box whose no-update deadline has passed, or
\* whose gap window has elapsed with updates pending, into getting_diff.
Due(mb, b) ==
    /\ b \in mb.boxes
    /\ \/ mb.deadline[b] = "passed"
       \/ (mb.until[b] = "elapsed" /\ mb.pending[b] /= << >>)

CheckDeadlines(mb) ==
    [mb EXCEPT !.getting_diff = @ \cup {b \in Boxes : Due(mb, b)}]

\* get_difference(): the common box's request while it is getting difference.
GetDifference(mb) ==
    IF "common" \in mb.getting_diff
    THEN Some([box |-> "common", pts |-> mb.pts["common"], qts |-> mb.qts,
               date |-> mb.date])
    ELSE None

\* Position of a channel in the order of channel ids.
ChannelIndex(c) ==
    CHOOSE i \in 1..Len(ChannelOrder) : ChannelOrder[i] = c

\* Round-robin: how many places after the channel served last c comes, in
\* cyclic order of channel id (the channel served last comes last).
Turn(last, c) ==
    IF last = "none" THEN ChannelIndex(c)
    ELSE ((ChannelIndex(c) - ChannelIndex(last) - 1) % Len(ChannelOrder)) + 1

\* The channels a difference can be requested for: in getting_diff, with a
\* known access hash.
Pending(mb, hashes) ==
    {c \in Channels : c \in mb.getting_diff /\ c \in mb.boxes
                      /\ hashes[c] /= "unknown"}

\* Mutant of GetChannelDifference: always the pending channel of lowest id.
GetChannelDifferenceLowest(mb, hashes) ==
    LET cands == Pending(mb, hashes)
    IN  IF cands = {} THEN None
        ELSE LET c == CHOOSE x \in cands :
                        \A y \in cands : ChannelIndex(x) <= ChannelIndex(y)
             IN  Some([box |-> c, pts |-> mb.pts[c], qts |-> 0, date |-> 0])

\* get_channel_difference(&chat_hashes): one channel in getting_diff whose
\* access hash is known, round-robin across the pending channels.
GetChannelDifference(mb, hashes) ==
    LET cands == Pending(mb, hashes)
    IN  IF cands = {} THEN None
        ELSE LET c == CHOOSE x \in cands :
                        \A y \in cands :
                            Turn(mb.last_channel, x) <= Turn(mb.last_channel, y)
             IN  Some([box |-> c, pts |-> mb.pts[c], qts |-> 0, date |-> 0])

\* get_channel_difference remembers the channel it yielded a request for.
Served(mb, request) ==
    IF IsSome(request) THEN [mb EXCEPT !.last_channel = Unwrap(request).box]
    ELSE mb

\* Mutant of EndGetDiff: what was buffered during the difference is thrown
\* away unexamined.
EndGetDiffDropsBuffer(mb, b) ==
    [mb |-> [mb EXCEPT !.getting_diff = @ \ {b}, !.deadline[b] = "future",
                       !.pending[b] = << >>, !.until[b] = "unset"],
     out |-> << >>]

\* The difference has landed on box b: leave getting_diff, restart the
\* no-update deadline and re-examine what was buffered meanwhile.
EndGetDiff(mb, b) ==
    Flush([mb EXCEPT !.getting_diff = @ \ {b}, !.deadline[b] = "future"],
          b, << >>)

\* Mutant of ApplyDifference: a slice ends the difference like a final
\* response.
ApplyDifferenceSliceEnds(mb, d) ==
    LET echoed == [mb EXCEPT !.pts["common"] = d.pts, !.qts = d.qts,
                             !.seq = d.seq, !.date = d.date]
    IN  IF d.kind = "empty"
        THEN LET f == EndGetDiff(echoed, "common")
             IN  [mb |-> f.mb, out |-> f.out]
        ELSE LET f == EndGetDiff(echoed, "common")
             IN  [mb |-> f.mb, out |-> d.ups \o f.out]

\* Mutant of ApplyDifference: the echoed state is not stored, the box stays
\* where the request found it.
ApplyDifferenceNoEcho(mb, d) ==
    IF d.kind = "slice"
    THEN [mb |-> mb, out |-> d.ups]
    ELSE LET f == EndGetDiff(mb, "common")
         IN  [mb |-> f.mb, out |-> d.ups \o f.out]

\* apply_difference(response): empty, slice or final.
ApplyDifference(mb, d) ==
    LET echoed == [mb EXCEPT !.pts["common"] = d.pts, !.qts = d.qts,
                             !.seq = d.seq, !.date = d.date]
    IN  IF d.kind = "empty"
        THEN LET f == EndGetDiff(echoed, "common")
             IN  [mb |-> f.mb, out |-> f.out]
        ELSE IF d.kind = "slice"
        THEN [mb |-> echoed, out |-> d.ups]
        ELSE LET f == EndGetDiff(echoed, "common")
             IN  [mb |-> f.mb, out |-> d.ups \o f.out]

\* apply_channel_difference(request, response).
ApplyChannelDifference(mb, r, d) ==
    LET c == r.box
        echoed == [mb EXCEPT !.pts[c] = d.pts]
    IN  IF c \notin mb.boxes THEN [mb |-> mb, out |-> << >>]
        ELSE IF d.kind = "final"
        THEN LET f == EndGetDiff(echoed, c)
             IN  [mb |-> f.mb, out |-> d.ups \o f.out]
        ELSE [mb |-> echoed, out |-> d.ups]

\* end_channel_difference(request, reason).
EndChannelDifference(mb, r, reason) ==
    LET c == r.box
    IN  IF reason = "Banned"
        THEN [mb EXCEPT !.boxes = @ \ {c}, !.banned = @ \cup {c},
                        !.getting_diff = @ \ {c},
                        !.pts[c] = 0, !.pending[c] = << >>,
                        !.until[c] = "unset", !.deadline[c] = "future"]
        ELSE [mb EXCEPT !.getting_diff = @ \ {c}, !.deadline[c] = "future",
                        !.pending[c] = << >>, !.until[c] = "unset"]

\* ensure_known_peer_hashes(&updates, &mut chat_hashes): every channel the
\* container's updates refer to has a hash, known already or supplied by it;
\* the updates of a channel the account is banned from are dropped likewise.
Referenced(c) ==
    {c.ups[i].box : i \in 1..Len(c.ups)} \cap Channels

KnownPeers(mb, hashes, c) ==
    \A ch \in Referenced(c) :
        /\ ch \notin mb.banned
        /\ hashes[ch] /= "unknown" \/ ch \in c.supplies

ExtendHashes(hashes, c) ==
    [ch \in Channels |-> IF ch \in c.supplies THEN "full" ELSE hashes[ch]]

(* ------------------------- extend_update_queue ------------------------- *)
\* Mutant of Truncate: the oldest elements are cut instead of the newest.
TruncateFront(s, len) ==
    IF len >= Len(s) THEN s ELSE SubSeq(s, Len(s) - len + 1, Len(s))

\* updates.truncate(len): the first len elements (all of them if len >= Len).
Truncate(s, len) ==
    IF len >= Len(s) THEN s ELSE SubSeq(s, 1, len)

\* Mutant of CheckedSub: the subtraction succeeds only from b + 1 on, so an
\* extend that goes one past the limit is not seen as exceeding it.
CheckedSubLate(a, b) ==
    IF a > b THEN Some(a - b) ELSE None

\* (state.updates.len() + updates.len()).checked_sub(limit + 1)
CheckedSub(a, b) ==
    IF a >= b THEN Some(a - b) ELSE None

\* The pairs pushed by `updates.into_iter().map(|u| (u, chat_map.clone()))`.
WithChatMap(ups, chat_map) ==
    [i \in 1..Len(ups) |-> [u |-> ups[i], map |-> chat_map]]

\* Lines 239-240: the number of updates to drop, None when the batch fits;
\* `limit + 1` on usize wraps around to 0 for limit = usize::MAX in a build
\* without overflow checks.
Exceeds(q, limit, ups) ==
    LET sub == IF IsSome(limit)
               THEN CheckedSub(Len(q) + Len(ups),
                               (Unwrap(limit) + 1) % (UsizeMax + 1))
               ELSE None
    IN  IF IsSome(sub) THEN Some(Unwrap(sub) + 1) ELSE None

\* The outcomes of extend_update_queue(updates, chat_map) on queue q:
\* a set, because `limit + 1` and `updates.len() - exceeds` on usize panic in
\* a build with overflow checks and wrap around in one without.
ExtendUpdateQueue(q, lw, limit, ups, chat_map, t) ==
    LET sub == Exceeds(q, limit, ups)
    IN  IF IsSome(limit) /\ IsSome(sub)
        THEN LET exceeds == Unwrap(sub)
                 notify == IF lw = None THEN TRUE
                           ELSE t - Unwrap(lw) > UPDATE_LIMIT_EXCEEDED_LOG_COOLDOWN
             IN  IF exceeds > Len(ups)
                 THEN { [q |-> q, lw |-> lw, dropped |-> 0, warn |-> FALSE,
                         panic |-> TRUE],
                        [q |-> q \o WithChatMap(ups, chat_map), lw |-> Some(t),
                         dropped |-> 0, warn |-> notify, panic |-> FALSE] }
                 ELSE { [q |-> q \o WithChatMap(Truncate(ups, Len(ups) - exceeds),
                                                chat_map),
                         lw |-> Some(t), dropped |-> exceeds, warn |-> notify,
                         panic |-> FALSE] }
        ELSE { [q |-> q \o WithChatMap(ups, chat_map), lw |-> lw, dropped |-> 0,
                warn |-> FALSE, panic |-> FALSE] }


\* By how much a batch overflows the queue: old length + batch length - limit.
Overflow(q, limit, ups) ==
    IF IsSome(limit) /\ Len(q) + Len(ups) > Unwrap(limit)
    THEN Len(q) + Len(ups) - Unwrap(limit)
    ELSE 0

\* History: the overflow of one more extend, and the number its warning
\* reported if it logged one (lines 248-253).
NoDrops == [overflow |-> 0, warned |-> 0]

Counted(d, q, limit, ups, r) ==
    [overflow |-> d.overflow + Overflow(q, limit, ups),
     warned |-> d.warned + (IF r.warn THEN r.dropped ELSE 0)]

(* ------------------------------- Client -------------------------------- *)
Tasks == 1..NumTasks

\* InvocationError: an RPC error with its code and name, or a failure of the
\* transport itself.
InvocationErrors ==
    { [rpc |-> TRUE, code |-> 500, name |-> "PERSISTENT_TIMESTAMP_OUTDATED"],
      [rpc |-> TRUE, code |-> 400, name |-> "CHANNEL_PRIVATE"],
      [rpc |-> TRUE, code |-> 500, name |-> "INTERNAL"],
      [rpc |-> TRUE, code |-> 420, name |-> "FLOOD_WAIT"],
      [rpc |-> FALSE, code |-> 0, name |-> "Dropped"] }

\* The errors of a transport step: the connection failed.
StepErrors == {e \in InvocationErrors : ~e.rpc}

\* e.is(name): an RPC error of that name.
Is(e, name) == e.rpc /\ e.name = name

\* Mutant of PrematureEnd: an RPC error of status 500 with another name is
\* not recognised and is returned to the caller.
PrematureEndByName(e) ==
    IF Is(e, "PERSISTENT_TIMESTAMP_OUTDATED") THEN Some("TemporaryServerIssues")
    ELSE IF Is(e, "CHANNEL_PRIVATE") THEN Some("Banned")
    ELSE None

\* Mutant of PrematureEnd: CHANNEL_PRIVATE is taken for a temporary issue.
PrematureEndNeverBans(e) ==
    IF e.rpc /\ (e.code = 500 \/ e.name = "CHANNEL_PRIVATE")
    THEN Some("TemporaryServerIssues")
    ELSE None

\* The match on maybe_response, lines 108-169: the reason the channel
\* difference ends early with, or None when the error is returned.
PrematureEnd(e) ==
    IF Is(e, "PERSISTENT_TIMESTAMP_OUTDATED") THEN Some("TemporaryServerIssues")
    ELSE IF Is(e, "CHANNEL_PRIVATE") THEN Some("Banned")
    ELSE IF e.rpc /\ e.code = 500 THEN Some("TemporaryServerIssues")
    ELSE None

\* Result<(Update, Arc<ChatMap>), InvocationError>
Ok(v) == [ok |-> TRUE, val |-> v]
Err(e) == [ok |-> FALSE, val |-> e]

EmptyResult == [updates |-> << >>, maps |-> {}]

InitialMessageBox ==
    [boxes |-> {"common"},
     banned |-> {},
     pts |-> [b \in Boxes |-> 0],
     qts |-> 0, seq |-> 0, date |-> 0,
     getting_diff |-> {},
     last_channel |-> "none",
     pending |-> [b \in Boxes |-> << >>],
     until |-> [b \in Boxes |-> "unset"],
     deadline |-> [b \in Boxes |-> "future"]]

\* session_state(): the serializable snapshot of the boxes.
SessionState(mb) ==
    [pts |-> mb.pts["common"], qts |-> mb.qts, seq |-> mb.seq, date |-> mb.date,
     channels |-> [c \in mb.boxes \cap Channels |-> mb.pts[c]]]

\* set_state(snapshot): the MessageBox restored from a snapshot, with a box
\* for each channel the snapshot lists.
SetState(snap) ==
    [InitialMessageBox EXCEPT
        !.boxes = {"common"} \cup DOMAIN snap.channels,
        !.pts = [b \in Boxes |->
                    IF b = "common" THEN snap.pts
                    ELSE IF b \in DOMAIN snap.channels THEN snap.channels[b]
                    ELSE 0],
        !.qts = snap.qts, !.seq = snap.seq, !.date = snap.date]

\* No retrying! is running, no value is being encoded.
IdleRetry == [pc |-> "idle"]
IdleCodec == [pc |-> "idle"]

\* The update state of a session that has not synchronized yet.
EmptySession ==
    [pts |-> 0, qts |-> 0, seq |-> 0, date |-> 0, channels |-> << >>]

\* The part of the state a specification that does not use it leaves alone.
IdleRest ==
    /\ message_box = InitialMessageBox
    /\ chat_hashes = [c \in Channels |-> "unknown"]
    /\ lock = 0
    /\ pc = [t \in Tasks |-> "top"]
    /\ req = [t \in Tasks |-> None]
    /\ res = [t \in Tasks |-> EmptyResult]
    /\ idx = [t \in Tasks |-> 0]
    /\ maybe_response = [t \in Tasks |-> None]
    /\ ret = [t \in Tasks |-> None]
    /\ restored = None
    /\ retry = IdleRetry
    /\ codec = IdleCodec
    /\ napplied = [b \in Boxes |-> 0]
    /\ queued = [b \in Boxes |-> << >>]
    /\ lastVerdict = None
    /\ drops = NoDrops

(* ------------------------ queue specification -------------------------- *)
\* An incoming batch of k updates of the common box, applied in order.
StampedBatch(k) ==
    [i \in 1..k |-> [box |-> "common", pts |-> napplied["common"] + i,
                     count |-> 1, cont |-> 1,
                     stamp |-> napplied["common"] + i]]

\* History: what a call of extend_update_queue appended, per box.
Queued(old, new) ==
    [b \in Boxes |->
        LET added == SelectSeq(SubSeq(new, Len(old) + 1, Len(new)),
                               LAMBDA e : e.u.box = b)
        IN  queued[b] \o [i \in 1..Len(added) |->
                            [pts |-> added[i].u.pts, stamp |-> added[i].u.stamp]]]

QInit ==
    /\ updates = << >>
    /\ last_update_limit_warn = None
    /\ update_queue_limit \in {None} \cup {Some(l) : l \in 0..MaxLimit}
    /\ now = 0
    /\ session = EmptySession
    /\ panicked = FALSE
    /\ lastExtend = None
    /\ IdleRest

QExtend ==
    /\ ~panicked
    /\ \E k \in 0..MaxExtend :
         /\ napplied["common"] + k <= MaxStamp
         /\ \E r \in ExtendUpdateQueue(updates, last_update_limit_warn,
                                       update_queue_limit, StampedBatch(k), {1}, now) :
              /\ updates' = r.q
              /\ last_update_limit_warn' = r.lw
              /\ panicked' = r.panic
              /\ queued' = Queued(updates, r.q)
              /\ drops' = Counted(drops, updates, update_queue_limit,
                                   StampedBatch(k), r)
              /\ lastExtend' = Some([old |-> updates, batch |-> StampedBatch(k),
                                     new |-> r.q, dropped |-> r.dropped,
                                     warn |-> r.warn])
         /\ napplied' = [napplied EXCEPT !["common"] = @ + k]
    /\ UNCHANGED << envVars, message_box, chat_hashes,
                    taskVars, lastVerdict >>

\* state.updates.pop_front() returning Some.
QPopFront ==
    /\ ~panicked
    /\ updates /= << >>
    /\ updates' = Tail(updates)
    /\ UNCHANGED << last_update_limit_warn, envVars, panicked,
                    message_box, chat_hashes, taskVars, histVars >>

QNext == QExtend \/ QPopFront

SpecQueue == QInit /\ [][QNext]_vars

(* ------------------------ width specification -------------------------- *)
\* The queue with the limits at the two ends of usize.
WidthInit ==
    /\ updates = << >>
    /\ last_update_limit_warn = None
    /\ update_queue_limit \in {Some(0), Some(1), Some(UsizeMax)}
    /\ now = 0
    /\ session = EmptySession
    /\ panicked = FALSE
    /\ lastExtend = None
    /\ IdleRest

SpecWidth == WidthInit /\ [][QNext]_vars

(* ----------------------- warning specification ------------------------- *)
\* The queue with a limit of 0 or 1 and a clock that advances between the
\* calls; the history keeps the time of the last warning that was logged.
WarnInit ==
    /\ updates = << >>
    /\ last_update_limit_warn = None
    /\ update_queue_limit \in {Some(0), Some(1)}
    /\ now = 0
    /\ session = EmptySession
    /\ panicked = FALSE
    /\ lastExtend = None
    /\ IdleRest

WarnExtend ==
    /\ ~panicked
    /\ \E k \in 0..MaxBatch :
         /\ napplied["common"] + k <= MaxStamp
         /\ \E r \in ExtendUpdateQueue(updates, last_update_limit_warn,
                                       update_queue_limit, StampedBatch(k), {1}, now) :
              /\ updates' = r.q
              /\ last_update_limit_warn' = r.lw
              /\ panicked' = r.panic
              /\ queued' = Queued(updates, r.q)
              /\ drops' = Counted(drops, updates, update_queue_limit,
                                   StampedBatch(k), r)
              /\ lastExtend' = Some([old |-> updates, batch |-> StampedBatch(k),
                                     new |-> r.q, dropped |-> r.dropped,
                                     warn |-> r.warn])
              /\ lastVerdict' = IF r.warn
                                THEN Some([op |-> "warn", at |-> now])
                                ELSE lastVerdict
         /\ napplied' = [napplied EXCEPT !["common"] = @ + k]
    /\ UNCHANGED << envVars, message_box, chat_hashes, taskVars >>

\* Time passes between two calls.
Tick ==
    /\ \E d \in {ClockStep, ClockStep + 1} :
         /\ now + d <= MaxNow
         /\ now' = now + d
    /\ UNCHANGED << queueVars, update_queue_limit, retry, codec, session, restored, panicked,
                    message_box, chat_hashes, taskVars, histVars >>

WarnNext == WarnExtend \/ QPopFront \/ Tick

SpecWarn == WarnInit /\ [][WarnNext]_vars


(* ------------------------- client specification ------------------------ *)
\* pts_count of the updates the server sends on the socket.
PtsCounts == {1}

Update(b, p, n) == [box |-> b, pts |-> p, count |-> n]

UpdateInputs(B) ==
    {Update(b, p, n) : b \in B, p \in 1..MaxPts, n \in PtsCounts}

\* The containers a transport step can deliver: updates of the boxes B, with
\* the access hashes of some channels of S, or updatesTooLong.
ContainersOf(B, S) ==
    {[kind |-> "updates", seq_start |-> 0, seq |-> 0, date |-> 0, ups |-> ups,
      supplies |-> sup] :
        ups \in {<< >>} \cup {<< u >> : u \in UpdateInputs(B)},
        sup \in SUBSET S}
    \cup {[kind |-> "tooLong", seq_start |-> 0, seq |-> 0, date |-> 0,
           ups |-> << >>, supplies |-> {}]}

\* Two tasks on one client: the server never supplies a channel's hash.
Containers == ContainersOf(Boxes, {})

\* One task, with the common box and a channel whose hash the containers
\* may supply.
ChannelContainers == ContainersOf({"common", "c1"}, {"c1"})

\* The container as position n of all_updates: its updates remember n.
InBatch(c, n) ==
    [c EXCEPT !.ups = [i \in 1..Len(c.ups) |->
                         [box |-> c.ups[i].box, pts |-> c.ups[i].pts,
                          count |-> c.ups[i].count, cont |-> n]]]

\* Buffered updates outlive the call that delivered them.
OldCont == MaxBatch + 1
Age(mb) ==
    [mb EXCEPT !.pending = [b \in Boxes |->
        [i \in 1..Len(mb.pending[b]) |-> [mb.pending[b][i] EXCEPT !.cont = OldCont]]]]

\* History: the i-th update a box applies carries stamp i.
CountOf(out, b, n) ==
    Cardinality({j \in 1..n : out[j].box = b})

Stamp(out) ==
    [i \in 1..Len(out) |-> [box |-> out[i].box, pts |-> out[i].pts,
                            count |-> out[i].count, cont |-> out[i].cont,
                            stamp |-> napplied[out[i].box] + CountOf(out, out[i].box, i)]]

Applied(out) ==
    [b \in Boxes |-> napplied[b] + CountOf(out, b, Len(out))]

AppliedBounded(out) ==
    \A b \in Boxes : Applied(out)[b] <= MaxApplied

PendingBounded(mb) ==
    \A b \in Boxes : Len(mb.pending[b]) <= MaxPending

\* The server's answers to updates.getDifference(pts, date, qts): the state it
\* echoes is at or after the request's, with the updates in between.
DiffUpdates(b, from, to) ==
    [i \in 1..(to - from) |-> [box |-> b, pts |-> from + i, count |-> 1, cont |-> 0]]

DiffResponses(r, seq) ==
    {[kind |-> "empty", pts |-> r.pts, qts |-> r.qts, seq |-> seq,
      date |-> r.date, ups |-> << >>]}
    \cup {[kind |-> k, pts |-> e, qts |-> r.qts, seq |-> seq, date |-> r.date,
           ups |-> DiffUpdates(r.box, r.pts, e)] :
            k \in {"slice", "final"}, e \in (r.pts + 1)..MaxPts}

ChannelDiffResponses(r) ==
    {[kind |-> k, pts |-> e, ups |-> DiffUpdates(r.box, r.pts, e)] :
        k \in {"slice", "final"}, e \in r.pts..MaxPts}

Init ==
    /\ updates = << >>
    /\ last_update_limit_warn = None
    /\ update_queue_limit = None
    /\ now = 0
    /\ session = EmptySession
    /\ panicked = FALSE
    /\ lastExtend = None
    /\ IdleRest

\* The caller calls next_raw_update again.
Call(t) ==
    /\ pc[t] = "returned" /\ ~panicked
    /\ pc' = [pc EXCEPT ![t] = "top"]
    /\ ret' = [ret EXCEPT ![t] = None]
    /\ UNCHANGED << queueVars, envVars, panicked, message_box, chat_hashes,
                    lock, req, res, idx, maybe_response, histVars >>

\* Mutant of PopFront: the newest entry of the queue is returned.
PopBack(t) ==
    /\ pc[t] = "top" /\ lock = 0 /\ ~panicked
    /\ updates /= << >>
    /\ updates' = SubSeq(updates, 1, Len(updates) - 1)
    /\ ret' = [ret EXCEPT ![t] = Some(Ok(updates[Len(updates)]))]
    /\ pc' = [pc EXCEPT ![t] = "returned"]
    /\ maybe_response' = [maybe_response EXCEPT ![t] = None]
    /\ UNCHANGED << last_update_limit_warn, envVars, panicked,
                    message_box, chat_hashes, lock, req, res, idx, histVars >>

\* next_raw_update, lines 82-85: the queue has an update, return it.
PopFront(t) ==
    /\ pc[t] = "top" /\ lock = 0 /\ ~panicked
    /\ updates /= << >>
    /\ updates' = Tail(updates)
    /\ ret' = [ret EXCEPT ![t] = Some(Ok(Head(updates)))]
    /\ pc' = [pc EXCEPT ![t] = "returned"]
    /\ maybe_response' = [maybe_response EXCEPT ![t] = None]
    /\ UNCHANGED << last_update_limit_warn, envVars, panicked,
                    message_box, chat_hashes, lock, req, res, idx, histVars >>

\* Mutant of Poll: check_deadlines is called last, after the requests were
\* computed.
PollChecksLast(t) ==
    /\ pc[t] = "top" /\ lock = 0 /\ ~panicked
    /\ updates = << >>
    /\ LET get_diff == GetDifference(message_box)
           get_channel_diff == GetChannelDifference(message_box, chat_hashes)
       IN  /\ message_box' = CheckDeadlines(Served(message_box, get_channel_diff))
           /\ IF IsSome(get_diff)
              THEN pc' = [pc EXCEPT ![t] = "diff"] /\ req' = [req EXCEPT ![t] = get_diff]
              ELSE IF IsSome(get_channel_diff)
              THEN /\ pc' = [pc EXCEPT ![t] = "chandiff"]
                   /\ req' = [req EXCEPT ![t] = get_channel_diff]
              ELSE pc' = [pc EXCEPT ![t] = "wait"] /\ req' = [req EXCEPT ![t] = None]
    /\ maybe_response' = [maybe_response EXCEPT ![t] = None]
    /\ UNCHANGED << ret, queueVars, envVars, panicked, chat_hashes,
                    lock, res, idx, histVars >>

\* Mutant of Poll: the guard of the write lock outlives the block of lines
\* 81-91, so the task still holds the lock when it awaits.
PollKeepsLock(t) ==
    /\ pc[t] = "top" /\ lock = 0 /\ ~panicked
    /\ updates = << >>
    /\ lock' = t
    /\ LET mb == CheckDeadlines(message_box)
           get_diff == GetDifference(mb)
           get_channel_diff == GetChannelDifference(mb, chat_hashes)
       IN  /\ message_box' = Served(mb, get_channel_diff)
           /\ IF IsSome(get_diff)
              THEN pc' = [pc EXCEPT ![t] = "diff"] /\ req' = [req EXCEPT ![t] = get_diff]
              ELSE IF IsSome(get_channel_diff)
              THEN /\ pc' = [pc EXCEPT ![t] = "chandiff"]
                   /\ req' = [req EXCEPT ![t] = get_channel_diff]
              ELSE pc' = [pc EXCEPT ![t] = "wait"] /\ req' = [req EXCEPT ![t] = None]
    /\ maybe_response' = [maybe_response EXCEPT ![t] = None]
    /\ UNCHANGED << ret, queueVars, envVars, panicked, chat_hashes,
                    res, idx, histVars >>

\* Mutant of Poll: a channel request that is selected and not sent counts
\* as answered, its channel leaves getting_diff and its deadline restarts.
PollForgetsDiscarded(t) ==
    /\ pc[t] = "top" /\ lock = 0 /\ ~panicked
    /\ updates = << >>
    /\ LET mb == CheckDeadlines(message_box)
           get_diff == GetDifference(mb)
           get_channel_diff == GetChannelDifference(mb, chat_hashes)
           served == Served(mb, get_channel_diff)
       IN  /\ message_box' =
                 IF IsSome(get_diff) /\ IsSome(get_channel_diff)
                 THEN [served EXCEPT
                         !.getting_diff = @ \ {Unwrap(get_channel_diff).box},
                         !.deadline[Unwrap(get_channel_diff).box] = "future"]
                 ELSE served
           /\ IF IsSome(get_diff)
              THEN pc' = [pc EXCEPT ![t] = "diff"] /\ req' = [req EXCEPT ![t] = get_diff]
              ELSE IF IsSome(get_channel_diff)
              THEN /\ pc' = [pc EXCEPT ![t] = "chandiff"]
                   /\ req' = [req EXCEPT ![t] = get_channel_diff]
              ELSE pc' = [pc EXCEPT ![t] = "wait"] /\ req' = [req EXCEPT ![t] = None]
    /\ maybe_response' = [maybe_response EXCEPT ![t] = None]
    /\ UNCHANGED << ret, queueVars, envVars, panicked, chat_hashes,
                    lock, res, idx, histVars >>

\* next_raw_update, lines 81-91: the queue is empty; check_deadlines,
\* get_difference and get_channel_difference in one critical section.
Poll(t) ==
    /\ pc[t] = "top" /\ lock = 0 /\ ~panicked
    /\ updates = << >>
    /\ LET mb == CheckDeadlines(message_box)
           get_diff == GetDifference(mb)
           get_channel_diff == GetChannelDifference(mb, chat_hashes)
       IN  /\ message_box' = Served(mb, get_channel_diff)
           /\ IF IsSome(get_diff)
              THEN pc' = [pc EXCEPT ![t] = "diff"] /\ req' = [req EXCEPT ![t] = get_diff]
              ELSE IF IsSome(get_channel_diff)
              THEN /\ pc' = [pc EXCEPT ![t] = "chandiff"]
                   /\ req' = [req EXCEPT ![t] = get_channel_diff]
              ELSE pc' = [pc EXCEPT ![t] = "wait"] /\ req' = [req EXCEPT ![t] = None]
    /\ maybe_response' = [maybe_response EXCEPT ![t] = None]
    /\ UNCHANGED << ret, queueVars, envVars, panicked, chat_hashes,
                    lock, res, idx, histVars >>

\* Lines 94-100: the getDifference response arrives and is applied.
DiffOk(t) ==
    /\ pc[t] = "diff" /\ lock = 0 /\ ~panicked
    /\ \E d \in DiffResponses(Unwrap(req[t]), message_box.seq) :
         LET r == ApplyDifference(message_box, d)
             out == Stamp(r.out)
         IN  /\ AppliedBounded(r.out)
             /\ message_box' = r.mb
             /\ napplied' = Applied(r.out)
             /\ res' = [res EXCEPT ![t] = [updates |-> out, maps |-> {0}]]
    /\ pc' = [pc EXCEPT ![t] = "ext"]
    /\ req' = [req EXCEPT ![t] = None]
    /\ UNCHANGED << callVars, queueVars, envVars, panicked, chat_hashes,
                    lock, idx, queued, lastExtend, lastVerdict, drops >>

\* Mutant of DiffErr: the failed difference is given up, the common box
\* leaves getting_diff.
DiffErrGivesUp(t) ==
    /\ pc[t] = "diff" /\ lock = 0 /\ ~panicked
    /\ \E e \in InvocationErrors : ret' = [ret EXCEPT ![t] = Some(Err(e))]
    /\ message_box' = [message_box EXCEPT !.getting_diff = @ \ {"common"}]
    /\ pc' = [pc EXCEPT ![t] = "returned"]
    /\ req' = [req EXCEPT ![t] = None]
    /\ UNCHANGED << maybe_response, queueVars, envVars, panicked,
                    chat_hashes, lock, res, idx, histVars >>

\* Line 94: `self.invoke(&request).await?` fails; the error is returned.
DiffErr(t) ==
    /\ pc[t] = "diff" /\ lock = 0 /\ ~panicked
    /\ \E e \in InvocationErrors : ret' = [ret EXCEPT ![t] = Some(Err(e))]
    /\ pc' = [pc EXCEPT ![t] = "returned"]
    /\ req' = [req EXCEPT ![t] = None]
    /\ UNCHANGED << maybe_response, queueVars, envVars, panicked, message_box,
                    chat_hashes, lock, res, idx, histVars >>

\* Lines 106-109 and 171-178: the getChannelDifference response is applied.
ChanDiffOk(t) ==
    /\ pc[t] = "chandiff" /\ lock = 0 /\ ~panicked
    /\ \E d \in ChannelDiffResponses(Unwrap(req[t])) :
         LET r == ApplyChannelDifference(message_box, Unwrap(req[t]), d)
             out == Stamp(r.out)
         IN  /\ AppliedBounded(r.out)
             /\ message_box' = r.mb
             /\ napplied' = Applied(r.out)
             /\ res' = [res EXCEPT ![t] = [updates |-> out, maps |-> {0}]]
    /\ pc' = [pc EXCEPT ![t] = "ext"]
    /\ req' = [req EXCEPT ![t] = None]
    /\ UNCHANGED << callVars, queueVars, envVars, panicked, chat_hashes,
                    lock, idx, queued, lastExtend, lastVerdict, drops >>

\* Line 106: the getChannelDifference invocation fails.
ChanDiffFails(t) ==
    /\ pc[t] = "chandiff" /\ ~panicked
    /\ \E e \in InvocationErrors :
         maybe_response' = [maybe_response EXCEPT ![t] = Some(e)]
    /\ pc' = [pc EXCEPT ![t] = "chanerr"]
    /\ UNCHANGED << queueVars, envVars, panicked, message_box, chat_hashes,
                    lock, req, res, idx, ret, histVars >>

\* Mutant of ChanDiffEnd: after TemporaryServerIssues the same request is
\* sent again at once.
ChanDiffEndRetries(t, reason) ==
    /\ pc[t] = "chanerr" /\ lock = 0 /\ ~panicked
    /\ PrematureEnd(Unwrap(maybe_response[t])) = Some(reason)
    /\ IF reason = "TemporaryServerIssues"
       THEN /\ pc' = [pc EXCEPT ![t] = "chandiff"]
            /\ UNCHANGED << message_box, req >>
       ELSE /\ message_box' = EndChannelDifference(message_box, Unwrap(req[t]),
                                                   reason)
            /\ pc' = [pc EXCEPT ![t] = "top"]
            /\ req' = [req EXCEPT ![t] = None]
    /\ UNCHANGED << callVars, queueVars, envVars, panicked, chat_hashes,
                    lock, res, idx, histVars >>

\* Mutant of ChanDiffEnd: TemporaryServerIssues is handled as the end of a
\* difference, so what the channel had buffered is re-examined and applied.
ChanDiffEndFlushes(t, reason) ==
    /\ pc[t] = "chanerr" /\ lock = 0 /\ ~panicked
    /\ PrematureEnd(Unwrap(maybe_response[t])) = Some(reason)
    /\ message_box' =
          IF reason = "TemporaryServerIssues"
          THEN EndGetDiff(message_box, Unwrap(req[t]).box).mb
          ELSE EndChannelDifference(message_box, Unwrap(req[t]), reason)
    /\ pc' = [pc EXCEPT ![t] = "top"]
    /\ req' = [req EXCEPT ![t] = None]
    /\ UNCHANGED << callVars, queueVars, envVars, panicked, chat_hashes,
                    lock, res, idx, histVars >>

\* Lines 110-135 and 153-167: PERSISTENT_TIMESTAMP_OUTDATED or RPC status
\* 500; lines 136-152: CHANNEL_PRIVATE. The difference is ended and the loop
\* starts over.
ChanDiffEnd(t, reason) ==
    /\ pc[t] = "chanerr" /\ lock = 0 /\ ~panicked
    /\ PrematureEnd(Unwrap(maybe_response[t])) = Some(reason)
    /\ message_box' = EndChannelDifference(message_box, Unwrap(req[t]), reason)
    /\ pc' = [pc EXCEPT ![t] = "top"]
    /\ req' = [req EXCEPT ![t] = None]
    /\ UNCHANGED << callVars, queueVars, envVars, panicked, chat_hashes,
                    lock, res, idx, histVars >>

\* Line 168: any other error is returned.
ChanDiffErr(t) ==
    /\ pc[t] = "chanerr" /\ ~panicked
    /\ PrematureEnd(Unwrap(maybe_response[t])) = None
    /\ ret' = [ret EXCEPT ![t] = Some(Err(Unwrap(maybe_response[t])))]
    /\ pc' = [pc EXCEPT ![t] = "returned"]
    /\ req' = [req EXCEPT ![t] = None]
    /\ maybe_response' = [maybe_response EXCEPT ![t] = None]
    /\ UNCHANGED << queueVars, envVars, panicked, message_box,
                    chat_hashes, lock, res, idx, histVars >>

\* Lines 184-188: the sleep arm of the select wins once a deadline is reached.
SleepFires(t) ==
    /\ pc[t] = "wait" /\ lock = 0 /\ ~panicked
    /\ \E b \in Boxes : Due(message_box, b)
    /\ pc' = [pc EXCEPT ![t] = "top"]
    /\ UNCHANGED << callVars, queueVars, envVars, panicked, message_box,
                    chat_hashes, lock, req, res, idx, histVars >>

\* Line 189: `step?` with a failed step returns the error.
StepErr(t) ==
    /\ pc[t] = "wait" /\ lock = 0 /\ ~panicked
    /\ \E e \in StepErrors : ret' = [ret EXCEPT ![t] = Some(Err(e))]
    /\ pc' = [pc EXCEPT ![t] = "returned"]
    /\ UNCHANGED << maybe_response, queueVars, envVars, panicked, message_box,
                    chat_hashes, lock, req, res, idx, histVars >>

\* process_socket_updates, lines 194-201: a non-empty all_updates; the write
\* lock is taken.
StepOk(t) ==
    /\ pc[t] = "wait" /\ lock = 0 /\ ~panicked
    /\ lock' = t
    /\ pc' = [pc EXCEPT ![t] = "psu"]
    /\ res' = [res EXCEPT ![t] = EmptyResult]
    /\ idx' = [idx EXCEPT ![t] = 0]
    /\ UNCHANGED << callVars, queueVars, envVars, panicked, message_box,
                    chat_hashes, req, histVars >>

\* Mutant of PsuUnknown: the failed check is ignored and the container is
\* processed all the same.
PsuUnknownProcessed(t, C) ==
    /\ pc[t] = "psu" /\ lock = t /\ idx[t] < MaxBatch
    /\ \E c \in C :
         LET r == ProcessUpdates(message_box, InBatch(c, idx[t] + 1))
             out == Stamp(r.out)
         IN  /\ ~KnownPeers(message_box, chat_hashes, c)
             /\ r.ok
             /\ PendingBounded(r.mb)
             /\ AppliedBounded(r.out)
             /\ message_box' = r.mb
             /\ napplied' = Applied(r.out)
             /\ res' = [res EXCEPT ![t] = [updates |-> @.updates \o out,
                                           maps |-> @.maps \cup {idx[t] + 1}]]
    /\ idx' = [idx EXCEPT ![t] = @ + 1]
    /\ UNCHANGED << callVars, queueVars, envVars, panicked, chat_hashes,
                    lock, pc, req, queued, lastExtend, lastVerdict, drops >>

\* Lines 204-210: ensure_known_peer_hashes fails, `continue`.
PsuUnknown(t, C) ==
    /\ pc[t] = "psu" /\ lock = t /\ idx[t] < MaxBatch
    /\ \E c \in C : ~KnownPeers(message_box, chat_hashes, c)
    /\ idx' = [idx EXCEPT ![t] = @ + 1]
    /\ UNCHANGED << callVars, queueVars, envVars, panicked, message_box,
                    chat_hashes, lock, pc, req, res, histVars >>

\* Lines 211-223: process_updates returns Ok, the result is accumulated.
PsuOk(t, C) ==
    /\ pc[t] = "psu" /\ lock = t /\ idx[t] < MaxBatch
    /\ \E c \in C :
         LET r == ProcessUpdates(message_box, InBatch(c, idx[t] + 1))
             out == Stamp(r.out)
         IN  /\ KnownPeers(message_box, chat_hashes, c)
             /\ r.ok
             /\ PendingBounded(r.mb)
             /\ AppliedBounded(r.out)
             /\ chat_hashes' = ExtendHashes(chat_hashes, c)
             /\ message_box' = r.mb
             /\ napplied' = Applied(r.out)
             /\ res' = [res EXCEPT ![t] = [updates |-> @.updates \o out,
                                           maps |-> @.maps \cup {idx[t] + 1}]]
    /\ idx' = [idx EXCEPT ![t] = @ + 1]
    /\ UNCHANGED << callVars, queueVars, envVars, panicked, lock, pc, req,
                    queued, lastExtend, lastVerdict, drops >>

\* Line 224: process_updates returns Err, `return`.
PsuGap(t, C) ==
    /\ pc[t] = "psu" /\ lock = t /\ idx[t] < MaxBatch
    /\ \E c \in C :
         LET r == ProcessUpdates(message_box, InBatch(c, idx[t] + 1))
         IN  /\ KnownPeers(message_box, chat_hashes, c)
             /\ ~r.ok
             /\ chat_hashes' = ExtendHashes(chat_hashes, c)
             /\ message_box' = Age(r.mb)
    /\ lock' = 0
    /\ pc' = [pc EXCEPT ![t] = "top"]
    /\ res' = [res EXCEPT ![t] = EmptyResult]
    /\ idx' = [idx EXCEPT ![t] = 0]
    /\ UNCHANGED << callVars, queueVars, envVars, panicked, req, histVars >>

\* Lines 226-232: the loop ends and the lock is released; the result is
\* queued by extend_update_queue if it holds an update.
PsuEnd(t) ==
    /\ pc[t] = "psu" /\ lock = t /\ idx[t] >= 1
    /\ lock' = 0
    /\ message_box' = Age(message_box)
    /\ idx' = [idx EXCEPT ![t] = 0]
    /\ IF res[t].updates /= << >>
       THEN pc' = [pc EXCEPT ![t] = "ext"] /\ res' = res
       ELSE pc' = [pc EXCEPT ![t] = "top"] /\ res' = [res EXCEPT ![t] = EmptyResult]
    /\ UNCHANGED << callVars, queueVars, envVars, panicked, chat_hashes,
                    req, histVars >>

\* extend_update_queue, lines 235-262, called at lines 101, 180 and 231.
Extend(t) ==
    /\ pc[t] = "ext" /\ lock = 0 /\ ~panicked
    /\ \E r \in ExtendUpdateQueue(updates, last_update_limit_warn,
                                  update_queue_limit, res[t].updates,
                                  res[t].maps, now) :
         /\ updates' = r.q
         /\ last_update_limit_warn' = r.lw
         /\ panicked' = r.panic
         /\ queued' = Queued(updates, r.q)
         /\ drops' = Counted(drops, updates, update_queue_limit,
                              res[t].updates, r)
    /\ pc' = [pc EXCEPT ![t] = "top"]
    /\ res' = [res EXCEPT ![t] = EmptyResult]
    /\ UNCHANGED << callVars, envVars, message_box, chat_hashes, lock, req,
                    idx, napplied, lastExtend, lastVerdict >>

\* Time passes: a box's no-update deadline is reached.
DeadlinePasses(b) ==
    /\ lock = 0 /\ ~panicked
    /\ b \in message_box.boxes /\ b \notin message_box.getting_diff
    /\ message_box.deadline[b] = "future"
    /\ message_box' = [message_box EXCEPT !.deadline[b] = "passed"]
    /\ UNCHANGED << queueVars, envVars, panicked, chat_hashes,
                    taskVars, histVars >>

\* Time passes: a box's possible_gap.until is reached.
GapWindowElapses(b) ==
    /\ lock = 0 /\ ~panicked
    /\ message_box.until[b] = "armed"
    /\ message_box' = [message_box EXCEPT !.until[b] = "elapsed"]
    /\ UNCHANGED << queueVars, envVars, panicked, chat_hashes,
                    taskVars, histVars >>

\* What a task does, given the containers its transport steps deliver.
TaskNext(t, C) ==
    \/ Call(t)
    \/ PopFront(t)
    \/ Poll(t)
    \/ DiffOk(t)
    \/ DiffErr(t)
    \/ SleepFires(t)
    \/ StepErr(t)
    \/ StepOk(t)
    \/ PsuUnknown(t, C)
    \/ PsuOk(t, C)
    \/ PsuGap(t, C)
    \/ PsuEnd(t)
    \/ Extend(t)

ChannelNext(t) ==
    \/ ChanDiffOk(t)
    \/ ChanDiffFails(t)
    \/ ChanDiffEnd(t, "TemporaryServerIssues")
    \/ ChanDiffEnd(t, "Banned")
    \/ ChanDiffErr(t)

\* Several tasks share the client; only the common box gets updates.
Next ==
    \/ \E t \in Tasks : TaskNext(t, Containers)
    \/ DeadlinePasses("common")
    \/ GapWindowElapses("common")

Spec == Init /\ [][Next]_vars

\* One task drives the client; the common box and the channels get updates.
NextChannels ==
    \/ TaskNext(1, ChannelContainers)
    \/ ChannelNext(1)
    \/ \E b \in Boxes : DeadlinePasses(b) \/ GapWindowElapses(b)

SpecChannels == Init /\ [][NextChannels]_vars

\* One task drives the client; the common box and both channels get updates,
\* fall behind and get their differences.
FleetContainers == ContainersOf(Channels, Channels)

NextFleet ==
    \/ TaskNext(1, FleetContainers)
    \/ ChannelNext(1)
    \/ \E b \in Boxes : DeadlinePasses(b) \/ GapWindowElapses(b)

SpecFleet == Init /\ [][NextFleet]_vars

(* ---------------------- cancellation specification --------------------- *)
\* The await points of next_raw_update: the getDifference invocation (line
\* 94), the getChannelDifference invocation (line 106) and the race between
\* the deadline and the transport step (line 187).
Suspended(t) ==
    pc[t] \in {"diff", "chandiff", "wait"}

\* Mutant of Cancel: the future can also be dropped between the application of
\* a batch and its push to the queue, as if an await stood between the two.
CancelAnywhere(t) ==
    /\ (Suspended(t) \/ pc[t] = "ext") /\ lock = 0 /\ ~panicked
    /\ pc' = [pc EXCEPT ![t] = "returned"]
    /\ ret' = [ret EXCEPT ![t] = None]
    /\ req' = [req EXCEPT ![t] = None]
    /\ res' = [res EXCEPT ![t] = EmptyResult]
    /\ UNCHANGED << queueVars, envVars, panicked, message_box, chat_hashes,
                    lock, idx, maybe_response, histVars >>

\* The caller drops the future of next_raw_update while it is suspended at an
\* await: the locals of the call are gone and nothing was returned.
Cancel(t) ==
    /\ Suspended(t) /\ ~panicked
    /\ pc' = [pc EXCEPT ![t] = "returned"]
    /\ ret' = [ret EXCEPT ![t] = None]
    /\ req' = [req EXCEPT ![t] = None]
    /\ res' = [res EXCEPT ![t] = EmptyResult]
    /\ UNCHANGED << queueVars, envVars, panicked, message_box, chat_hashes,
                    lock, idx, maybe_response, histVars >>

\* One task drives the client and may abandon any of its calls.
NextCancel ==
    \/ TaskNext(1, ChannelContainers)
    \/ ChannelNext(1)
    \/ Cancel(1)
    \/ \E b \in Boxes : DeadlinePasses(b) \/ GapWindowElapses(b)

SpecCancel == Init /\ [][NextCancel]_vars

(* -------------------------- box specification -------------------------- *)
\* The per-update algorithm alone: updates with any pts_count reach the
\* common box.
BoxInputs ==
    {[box |-> "common", pts |-> p, count |-> n, cont |-> 1] :
        p \in 0..MaxPts, n \in 0..MaxPtsCount}

BoxUpdate ==
    /\ \E u \in BoxInputs :
         LET r == ApplyPts(message_box, u)
         IN  /\ PendingBounded(r.mb)
             /\ AppliedBounded(r.out)
             /\ message_box' = r.mb
             /\ napplied' = Applied(r.out)
             /\ lastVerdict' = Some([local |-> message_box.pts[u.box], u |-> u,
                                     verdict |-> r.verdict,
                                     applied |-> Len(r.out) > 0])
    /\ UNCHANGED << queueVars, envVars, panicked, chat_hashes,
                    taskVars, queued, lastExtend, drops >>

BoxGapWindow ==
    GapWindowElapses("common")

BoxNext == BoxUpdate \/ BoxGapWindow

SpecBox == Init /\ [][BoxNext]_vars

\* The part of MessageBox that belongs to box b.
BoxView(mb, b) ==
    [exists |-> b \in mb.boxes, pts |-> mb.pts[b],
     getting_diff |-> b \in mb.getting_diff, pending |-> mb.pending[b],
     until |-> mb.until[b], deadline |-> mb.deadline[b]]

(* -------------------------- gap specification -------------------------- *)
\* One task on a client restored at pts GapStart: updates reach the common
\* box out of order, are buffered, and gaps are filled by difference.
GapSession ==
    [pts |-> GapStart, qts |-> 0, seq |-> 0, date |-> 0, channels |-> << >>]

GapPts ==
    {GapStale} \cup ((GapStart + 1)..(GapStart + GapNear)) \cup {GapTop}

\* The containers of the transport: one update of the common box each.
GapContainers ==
    {[kind |-> "updates", seq_start |-> 0, seq |-> 0, date |-> 0,
      ups |-> << Update("common", p, 1) >>, supplies |-> {}] : p \in GapPts}

\* The answers to getDifference: the echoed pts is one the server has reached.
GapDiffResponses(r) ==
    {[kind |-> "empty", pts |-> r.pts, qts |-> r.qts, seq |-> 0,
      date |-> r.date, ups |-> << >>]}
    \cup {[kind |-> k, pts |-> e, qts |-> q, seq |-> 0, date |-> d,
           ups |-> DiffUpdates(r.box, r.pts, e)] :
            k \in {"slice", "final"}, e \in {x \in GapPts : x > r.pts},
            q \in r.qts..MaxSeq, d \in r.date..MaxSeq}

GapInit ==
    /\ updates = << >>
    /\ last_update_limit_warn = None
    /\ update_queue_limit = None
    /\ now = 0
    /\ session = GapSession
    /\ panicked = FALSE
    /\ lastExtend = None
    /\ message_box = SetState(GapSession)
    /\ chat_hashes = [c \in Channels |-> "unknown"]
    /\ lock = 0
    /\ pc = [t \in Tasks |-> "top"]
    /\ req = [t \in Tasks |-> None]
    /\ res = [t \in Tasks |-> EmptyResult]
    /\ idx = [t \in Tasks |-> 0]
    /\ maybe_response = [t \in Tasks |-> None]
    /\ ret = [t \in Tasks |-> None]
    /\ restored = None
    /\ retry = IdleRetry
    /\ codec = IdleCodec
    /\ napplied = [b \in Boxes |-> 0]
    /\ queued = [b \in Boxes |-> << >>]
    /\ lastVerdict = None
    /\ drops = NoDrops

\* process_socket_updates, lines 194-233, with one container, and the
\* extend_update_queue it ends with: the transport delivers the container
\* while the task waits for a step or for the answer to getDifference.
GapDeliver(t) ==
    /\ pc[t] \in {"wait", "diff"} /\ lock = 0 /\ ~panicked
    /\ \E c \in GapContainers :
         LET r == ProcessUpdates(message_box, InBatch(c, 1))
             out == Stamp(r.out)
         IN  /\ KnownPeers(message_box, chat_hashes, c)
             /\ r.ok
             /\ Len(r.mb.pending["common"]) <= GapMaxPending
             /\ message_box' = Age(r.mb)
             /\ napplied' = Applied(r.out)
             /\ \E e \in ExtendUpdateQueue(updates, last_update_limit_warn,
                                           update_queue_limit, out, {1}, now) :
                  /\ updates' = IF out = << >> THEN updates ELSE e.q
                  /\ queued' = Queued(updates, updates')
             /\ lastVerdict' =
                   Some([op |-> "update", u |-> c.ups[1],
                         verdict |-> ApplyPts(message_box, InBatch(c, 1).ups[1]).verdict,
                         out |-> r.out,
                         before |-> BoxView(message_box, "common"),
                         after |-> BoxView(Age(r.mb), "common"),
                         queue |-> updates])
    /\ pc' = [pc EXCEPT ![t] = IF @ = "wait" THEN "top" ELSE @]
    /\ UNCHANGED << last_update_limit_warn, envVars, panicked, chat_hashes,
                    lock, req, res, idx, maybe_response, ret, lastExtend, drops >>

\* Lines 94-100: the answer to getDifference arrives and is applied.
GapDiffOk(t) ==
    /\ pc[t] = "diff" /\ lock = 0 /\ ~panicked
    /\ \E d \in GapDiffResponses(Unwrap(req[t])) :
         LET r == ApplyDifference(message_box, d)
             out == Stamp(r.out)
         IN  /\ message_box' = r.mb
             /\ napplied' = Applied(r.out)
             /\ res' = [res EXCEPT ![t] = [updates |-> out, maps |-> {0}]]
             /\ lastVerdict' =
                   Some([op |-> "difference", request |-> Unwrap(req[t]),
                         d |-> d, out |-> r.out,
                         before |-> BoxView(message_box, "common"),
                         after |-> BoxView(r.mb, "common"),
                         queue |-> updates])
    /\ pc' = [pc EXCEPT ![t] = "ext"]
    /\ req' = [req EXCEPT ![t] = None]
    /\ UNCHANGED << callVars, queueVars, envVars, panicked, chat_hashes,
                    lock, idx, queued, lastExtend, drops >>

GapNext ==
    \/ Call(1)
    \/ PopFront(1)
    \/ Poll(1)
    \/ SleepFires(1)
    \/ GapDeliver(1)
    \/ GapDiffOk(1)
    \/ DiffErr(1)
    \/ Extend(1)
    \/ DeadlinePasses("common")
    \/ GapWindowElapses("common")

SpecGap == GapInit /\ [][GapNext]_vars

(* -------------------------- seq specification -------------------------- *)
\* One task; the containers of the common box carry seq_start, seq and date:
\* seq 0 for a short update, seq_start = seq for updates, seq_start <= seq
\* for updatesCombined.
SeqContainers ==
    {[kind |-> "updates", seq_start |-> ss, seq |-> sq, date |-> d, ups |-> ups,
      supplies |-> {}] :
        ss \in 0..SeqTop, sq \in 0..SeqTop, d \in 0..MaxSeq,
        ups \in {<< >>} \cup {<< u >> : u \in UpdateInputs({"common"})}}

SeqInputs ==
    {c \in SeqContainers : \/ (c.seq_start = 0 /\ c.seq = 0)
                           \/ (1 <= c.seq_start /\ c.seq_start <= c.seq)}

\* The seq, date and pts of the common box.
SeqView(mb) ==
    [seq |-> mb.seq, date |-> mb.date, pts |-> mb.pts["common"],
     getting_diff |-> "common" \in mb.getting_diff,
     pending |-> mb.pending["common"]]

\* process_socket_updates, lines 194-233, with one container, and the
\* extend_update_queue it ends with unless process_updates returned Err.
SeqDeliver(t) ==
    /\ pc[t] \in {"wait", "diff"} /\ lock = 0 /\ ~panicked
    /\ \E c \in SeqInputs :
         LET r == ProcessUpdates(message_box, InBatch(c, 1))
             out == Stamp(r.out)
         IN  /\ KnownPeers(message_box, chat_hashes, c)
             /\ PendingBounded(r.mb)
             /\ AppliedBounded(r.out)
             /\ message_box' = Age(r.mb)
             /\ napplied' = Applied(r.out)
             /\ \E e \in ExtendUpdateQueue(updates, last_update_limit_warn,
                                           update_queue_limit, out, {1}, now) :
                  /\ updates' = IF out = << >> THEN updates ELSE e.q
                  /\ queued' = Queued(updates, updates')
             /\ lastVerdict' =
                   Some([op |-> "container", c |-> c, ok |-> r.ok, out |-> r.out,
                         before |-> SeqView(message_box),
                         after |-> SeqView(Age(r.mb))])
    /\ pc' = [pc EXCEPT ![t] = IF @ = "wait" THEN "top" ELSE @]
    /\ UNCHANGED << last_update_limit_warn, envVars, panicked, chat_hashes,
                    lock, req, res, idx, maybe_response, ret, lastExtend, drops >>

SeqNext ==
    \/ Call(1)
    \/ PopFront(1)
    \/ Poll(1)
    \/ SleepFires(1)
    \/ SeqDeliver(1)
    \/ DiffOk(1)
    \/ Extend(1)
    \/ DeadlinePasses("common")
    \/ GapWindowElapses("common")

SpecSeq == Init /\ [][SeqNext]_vars

(* -------------------------- peer specification ------------------------- *)
\* PeerHashTable: PeerId -> (access_hash, is_min), NoEntry for a peer
\* without an entry.
Peers == {"u1", "c1"}

NoEntry == [known |-> FALSE, hash |-> 0, min |-> FALSE]

Entry(h, m) == [known |-> TRUE, hash |-> h, min |-> m]

Entities ==
    {[peer |-> q, hash |-> h, min |-> m] :
        q \in Peers, h \in 1..MaxHash, m \in BOOLEAN}

EntityBatches ==
    UNION {[1..n -> Entities] : n \in 0..MaxEntities}

\* Mutant of MergeEntity: every entry overwrites the stored one.
MergeEntityMinOverrides(table, e) ==
    [table EXCEPT ![e.peer] = Entry(e.hash, e.min)]

\* The min-override rule for one supplied entity: a min entry does not
\* overwrite a non-min one, every other entry is stored.
MergeEntity(table, e) ==
    IF e.min /\ table[e.peer].known /\ ~table[e.peer].min
    THEN table
    ELSE [table EXCEPT ![e.peer] = Entry(e.hash, e.min)]

\* extend(users, chats): the supplied entities are merged in order.
RECURSIVE ExtendTable(_, _)
ExtendTable(table, batch) ==
    IF batch = << >> THEN table
    ELSE ExtendTable(MergeEntity(table, Head(batch)), Tail(batch))

PeerInit ==
    /\ updates = << >>
    /\ last_update_limit_warn = None
    /\ update_queue_limit = None
    /\ now = 0
    /\ session = EmptySession
    /\ panicked = FALSE
    /\ lastExtend = None
    /\ message_box = InitialMessageBox
    /\ chat_hashes = [q \in Peers |-> NoEntry]
    /\ lock = 0
    /\ pc = [t \in Tasks |-> "top"]
    /\ req = [t \in Tasks |-> None]
    /\ res = [t \in Tasks |-> EmptyResult]
    /\ idx = [t \in Tasks |-> 0]
    /\ maybe_response = [t \in Tasks |-> None]
    /\ ret = [t \in Tasks |-> None]
    /\ restored = None
    /\ retry = IdleRetry
    /\ codec = IdleCodec
    /\ napplied = [b \in Boxes |-> 0]
    /\ queued = [b \in Boxes |-> << >>]
    /\ lastVerdict = None
    /\ drops = NoDrops

\* One call of extend; the history keeps the table it started from and the
\* entities it was given.
PeerExtend ==
    \E batch \in EntityBatches :
        /\ chat_hashes' = ExtendTable(chat_hashes, batch)
        /\ lastVerdict' = Some([op |-> "extend", batch |-> batch,
                                before |-> chat_hashes])
        /\ UNCHANGED << queueVars, envVars, panicked, message_box, taskVars,
                        napplied, queued, lastExtend, drops >>

PeerNext == PeerExtend

SpecPeers == PeerInit /\ [][PeerNext]_vars

(* ------------------------ session specification ----------------------- *)
\* The snapshots a session can hold.
Snapshots ==
    {[pts |-> p, qts |-> q, seq |-> sq, date |-> d, channels |-> ch] :
        p \in 0..MaxPts, q \in 0..MaxSeq, sq \in 0..MaxSeq, d \in 0..MaxSeq,
        ch \in UNION {[S -> 0..MaxPts] : S \in SUBSET Channels}}

SInit ==
    /\ updates = << >>
    /\ last_update_limit_warn = None
    /\ update_queue_limit = None
    /\ now = 0
    /\ session \in Snapshots
    /\ panicked = FALSE
    /\ lastExtend = None
    /\ IdleRest

\* The client is built on a session: MessageBox is restored from its state.
Restore ==
    /\ message_box' = SetState(session)
    /\ restored' = Some(session)
    /\ UNCHANGED << queueVars, update_queue_limit, retry, codec, now, session, panicked,
                    chat_hashes, taskVars, histVars >>

\* An update reaches a box that exists.
SessionUpdate ==
    /\ \E b \in message_box.boxes, p \in 1..MaxPts :
         LET r == ApplyPts(message_box, [box |-> b, pts |-> p, count |-> 1,
                                         cont |-> 1])
         IN  /\ r.out /= << >>
             /\ PendingBounded(r.mb)
             /\ message_box' = r.mb
    /\ restored' = None
    /\ UNCHANGED << queueVars, update_queue_limit, retry, codec, now, session, panicked,
                    chat_hashes, taskVars, histVars >>

\* Mutant of SyncUpdateState: the channels are left out of what is stored.
SyncUpdateStateCommon ==
    /\ session' = [SessionState(message_box) EXCEPT !.channels = << >>]
    /\ UNCHANGED << queueVars, update_queue_limit, retry, codec, now, restored, panicked,
                    message_box, chat_hashes, taskVars, histVars >>

\* sync_update_state, lines 265-271.
SyncUpdateState ==
    /\ session' = SessionState(message_box)
    /\ UNCHANGED << queueVars, update_queue_limit, retry, codec, now, restored, panicked,
                    message_box, chat_hashes, taskVars, histVars >>

SNext == Restore \/ SessionUpdate \/ SyncUpdateState

SpecSession == SInit /\ [][SNext]_vars

(* ----------------------- selection specification ----------------------- *)
\* A client restored from a session that knows every channel: the channels
\* fall behind again and again and get their differences, one request at a
\* time, each followed by its response or its premature end.
SelectSession ==
    [pts |-> 1, qts |-> 0, seq |-> 0, date |-> 0,
     channels |-> [c \in Channels |-> 1]]

SelectInit ==
    /\ updates = << >>
    /\ last_update_limit_warn = None
    /\ update_queue_limit = None
    /\ now = 0
    /\ session = SelectSession
    /\ panicked = FALSE
    /\ lastExtend = None
    /\ message_box = SetState(SelectSession)
    /\ chat_hashes = [c \in Channels |-> "full"]
    /\ lock = 0
    /\ pc = [t \in Tasks |-> "top"]
    /\ req = [t \in Tasks |-> None]
    /\ res = [t \in Tasks |-> EmptyResult]
    /\ idx = [t \in Tasks |-> 0]
    /\ maybe_response = [t \in Tasks |-> None]
    /\ ret = [t \in Tasks |-> None]
    /\ restored = None
    /\ retry = IdleRetry
    /\ codec = IdleCodec
    /\ napplied = [b \in Boxes |-> 0]
    /\ queued = [b \in Boxes |-> << >>]
    /\ lastVerdict = None
    /\ drops = NoDrops

\* What the task does: it never stops calling next_raw_update.
SelectTask ==
    \/ Call(1)
    \/ PopFront(1)
    \/ Poll(1)
    \/ SleepFires(1)
    \/ Extend(1)
    \/ ChannelNext(1)

SelectNext ==
    \/ SelectTask
    \/ \E c \in Channels : DeadlinePasses(c)

SpecSelect == SelectInit /\ [][SelectNext]_vars /\ WF_vars(SelectTask)

(* ----------------------- priority specification ------------------------ *)
\* The selection specification with the common box falling due as well; its
\* getDifference is answered every time.
PriorityTask ==
    \/ SelectTask
    \/ DiffOk(1)

\* Time passes up to the common box's no-update deadline.
CommonDeadlinePasses ==
    /\ now < MaxCommonDue
    /\ lock = 0 /\ ~panicked
    /\ "common" \notin message_box.getting_diff
    /\ message_box.deadline["common"] = "future"
    /\ message_box' = [message_box EXCEPT !.deadline["common"] = "passed"]
    /\ now' = now + 1
    /\ UNCHANGED << queueVars, update_queue_limit, retry, codec, session, restored, panicked,
                    chat_hashes, taskVars, histVars >>

PriorityNext ==
    \/ PriorityTask
    \/ \E c \in Channels : DeadlinePasses(c)
    \/ CommonDeadlinePasses

SpecPriority == SelectInit /\ [][PriorityNext]_vars /\ WF_vars(PriorityTask)

(* -------------------------- retry specification ------------------------ *)
\* The policies: NoRetry, and Fixed { attempts, delay }.
NoRetry == [kind |-> "NoRetry", attempts |-> 0, delay |-> 0]

Fixed(n, d) == [kind |-> "Fixed", attempts |-> n, delay |-> d]

Policies ==
    {NoRetry} \cup {Fixed(n, d) : n \in 0..MaxAttempts, d \in 1..MaxDelay}

\* ControlFlow<(), Duration>.
Continue(d) == [flow |-> "Continue", delay |-> d]
Break == [flow |-> "Break", delay |-> 0]

\* Mutant of ShouldRetry: a Fixed policy never gives up.
ShouldRetryAlways(policy, attempts) ==
    IF policy.kind = "Fixed" THEN Continue(policy.delay) ELSE Break

\* RetryPolicy::should_retry(attempts) of Fixed and of NoRetry.
ShouldRetry(policy, attempts) ==
    IF policy.kind = "Fixed"
    THEN IF attempts <= policy.attempts THEN Continue(policy.delay) ELSE Break
    ELSE Break

\* What one evaluation of $body gives.
BodyOutcomes ==
    {Ok(v) : v \in 1..MaxValue} \cup {Err(e) : e \in 1..MaxValue}

RetryInit ==
    /\ updates = << >>
    /\ last_update_limit_warn = None
    /\ update_queue_limit = None
    /\ now = 0
    /\ session = EmptySession
    /\ panicked = FALSE
    /\ lastExtend = None
    /\ message_box = InitialMessageBox
    /\ chat_hashes = [c \in Channels |-> "unknown"]
    /\ lock = 0
    /\ pc = [t \in Tasks |-> "top"]
    /\ req = [t \in Tasks |-> None]
    /\ res = [t \in Tasks |-> EmptyResult]
    /\ idx = [t \in Tasks |-> 0]
    /\ maybe_response = [t \in Tasks |-> None]
    /\ ret = [t \in Tasks |-> None]
    /\ restored = None
    /\ napplied = [b \in Boxes |-> 0]
    /\ queued = [b \in Boxes |-> << >>]
    /\ lastVerdict = None
    /\ drops = NoDrops
    /\ codec = IdleCodec
    /\ \E policy \in Policies :
         retry = [pc |-> "body", policy |-> policy, attempts |-> 0,
                  evals |-> << >>, sleeps |-> << >>, out |-> None]

\* Mutant of RetryEval: when the policy breaks, the error of the first
\* evaluation is returned.
RetryEvalFirstError ==
    /\ retry.pc = "body"
    /\ \E r \in BodyOutcomes :
         LET attempts == retry.attempts + 1
             evals == Append(retry.evals, r)
             flow == ShouldRetry(retry.policy, attempts)
         IN  retry' =
               IF r.ok
               THEN [retry EXCEPT !.attempts = attempts, !.evals = evals,
                                  !.pc = "done", !.out = Some(r)]
               ELSE IF flow.flow = "Continue"
               THEN [retry EXCEPT !.attempts = attempts, !.evals = evals,
                                  !.pc = "sleep",
                                  !.sleeps = Append(@, [after |-> Len(evals),
                                                        delay |-> flow.delay])]
               ELSE [retry EXCEPT !.attempts = attempts, !.evals = evals,
                                  !.pc = "done", !.out = Some(evals[1])]
    /\ UNCHANGED << queueVars, update_queue_limit, now, session, restored,
                    codec, panicked, message_box, chat_hashes, taskVars,
                    histVars >>

\* One turn of the loop of retrying!, up to its await: $body is evaluated,
\* attempts is incremented, and res is matched: Ok breaks with the value,
\* Err asks the policy, which has the macro sleep or break with res.
RetryEval ==
    /\ retry.pc = "body"
    /\ \E r \in BodyOutcomes :
         LET attempts == retry.attempts + 1
             evals == Append(retry.evals, r)
             flow == ShouldRetry(retry.policy, attempts)
         IN  retry' =
               IF r.ok
               THEN [retry EXCEPT !.attempts = attempts, !.evals = evals,
                                  !.pc = "done", !.out = Some(r)]
               ELSE IF flow.flow = "Continue"
               THEN [retry EXCEPT !.attempts = attempts, !.evals = evals,
                                  !.pc = "sleep",
                                  !.sleeps = Append(@, [after |-> Len(evals),
                                                        delay |-> flow.delay])]
               ELSE [retry EXCEPT !.attempts = attempts, !.evals = evals,
                                  !.pc = "done", !.out = Some(r)]
    /\ UNCHANGED << queueVars, update_queue_limit, now, session, restored,
                    codec, panicked, message_box, chat_hashes, taskVars,
                    histVars >>

\* tokio::time::sleep(timeout).await returns; `continue`.
RetryWake ==
    /\ retry.pc = "sleep"
    /\ retry' = [retry EXCEPT !.pc = "body"]
    /\ UNCHANGED << queueVars, update_queue_limit, now, session, restored,
                    codec, panicked, message_box, chat_hashes, taskVars,
                    histVars >>

RetryNext == RetryEval \/ RetryWake

SpecRetry == RetryInit /\ [][RetryNext]_vars /\ WF_vars(RetryNext)

(* -------------------------- codec specification ------------------------ *)
\* The parameters of a TL definition: a flags word (`name:#`), a plain int,
\* or a parameter conditioned on a bit of a flags word (`flags.i?true`,
\* `flags.i?int`).
FlagNames == {"flags", "flags2"}

FlagsParam(n) ==
    [kind |-> "flags", ty |-> "#", name |-> n, cond |-> FALSE, index |-> 0]

PlainParam ==
    [kind |-> "normal", ty |-> "int", name |-> "", cond |-> FALSE, index |-> 0]

CondParam(ty, n, i) ==
    [kind |-> "normal", ty |-> ty, name |-> n, cond |-> TRUE, index |-> i]

Params ==
    {FlagsParam(n) : n \in FlagNames} \cup {PlainParam}
    \cup {CondParam(ty, n, i) :
            ty \in {"true", "int"}, n \in FlagNames, i \in 0..MaxFlagIndex}

\* The definitions the parser lets through: a conditional parameter names a
\* flags word defined before it, and no two flags words share a name.
Definitions ==
    {def \in UNION {[1..n -> Params] : n \in 1..MaxParams} :
        /\ \A j \in 1..Len(def) :
             def[j].cond =>
                \E k \in 1..(j - 1) :
                    def[k].kind = "flags" /\ def[k].name = def[j].name
        /\ \A j, k \in 1..Len(def) :
             (def[j].kind = "flags" /\ def[k].kind = "flags"
                /\ def[j].name = def[k].name) => j = k}

\* The field of the generated struct for one parameter: none for a flags
\* word, a bool for `true`, an Option for a conditional int.
Absent == [present |-> FALSE, val |-> 0]
Present(v) == [present |-> TRUE, val |-> v]

FieldValues(param) ==
    IF param.kind = "flags" THEN {Absent}
    ELSE IF param.ty = "true" THEN {Absent, Present(0)}
    ELSE IF param.cond THEN {Absent} \cup {Present(v) : v \in 1..MaxInt}
    ELSE {Present(v) : v \in 1..MaxInt}

StructValues(def) ==
    {x \in [1..Len(def) -> {Absent} \cup {Present(v) : v \in 0..MaxInt}] :
        \A j \in 1..Len(def) : x[j] \in FieldValues(def[j])}

\* 1 << flag.index, and the test `(flags & (1 << flag.index)) != 0`.
Bit(i) == 2 ^ i
BitSet(word, i) == (word \div Bit(i)) % 2 = 1

RECURSIVE SumBits(_)
SumBits(indices) ==
    IF indices = {} THEN 0
    ELSE LET i == CHOOSE k \in indices : TRUE
         IN  Bit(i) + SumBits(indices \ {i})

\* Mutant of FlagsWord: the `true` parameters do not set their bit.
FlagsWordWithoutTrue(def, x, n) ==
    SumBits({def[j].index : j \in {k \in 1..Len(def) :
                /\ def[k].cond /\ def[k].name = n
                /\ def[k].ty /= "true"
                /\ x[k].present}})

\* The expression serialize writes for the flags word n: 0u32 or-ed with the
\* bit of every parameter that uses n and is present.
FlagsWord(def, x, n) ==
    SumBits({def[j].index : j \in {k \in 1..Len(def) :
                /\ def[k].cond /\ def[k].name = n
                /\ x[k].present}})

\* serialize of a bare type: the parameters in order; `true` writes nothing,
\* a conditional parameter is written if it is Some.
RECURSIVE SerializeFrom(_, _, _)
SerializeFrom(def, x, j) ==
    IF j > Len(def) THEN << >>
    ELSE LET here ==
               IF def[j].kind = "flags" THEN << FlagsWord(def, x, def[j].name) >>
               ELSE IF def[j].ty = "true" THEN << >>
               ELSE IF def[j].cond /\ ~x[j].present THEN << >>
               ELSE << x[j].val >>
         IN  here \o SerializeFrom(def, x, j + 1)

Serialize(def, x) == SerializeFrom(def, x, 1)

\* deserialize: the parameters in order, each flags word kept in a local;
\* `true` is the test of its bit, a conditional parameter is read if its bit
\* is set; reading past the end of the buffer is an error.
RECURSIVE DeserializeFrom(_, _, _, _, _)
DeserializeFrom(def, buf, j, words, fields) ==
    IF j > Len(def) THEN [ok |-> TRUE, fields |-> fields]
    ELSE LET param == def[j]
             set == param.cond /\ BitSet(words[param.name], param.index)
             reads == \/ param.kind = "flags"
                      \/ (param.ty /= "true" /\ (~param.cond \/ set))
         IN  IF reads /\ buf = << >>
             THEN [ok |-> FALSE, fields |-> fields]
             ELSE IF param.kind = "flags"
             THEN DeserializeFrom(def, Tail(buf), j + 1,
                                  [words EXCEPT ![param.name] = Head(buf)],
                                  Append(fields, Absent))
             ELSE IF param.ty = "true"
             THEN DeserializeFrom(def, buf, j + 1, words,
                                  Append(fields, IF set THEN Present(0)
                                                 ELSE Absent))
             ELSE IF reads
             THEN DeserializeFrom(def, Tail(buf), j + 1, words,
                                  Append(fields, Present(Head(buf))))
             ELSE DeserializeFrom(def, buf, j + 1, words,
                                  Append(fields, Absent))

Deserialize(def, buf) ==
    DeserializeFrom(def, buf, 1, [n \in FlagNames |-> 0], << >>)

NoResult == [ok |-> FALSE, fields |-> << >>]

CodecInit ==
    /\ updates = << >>
    /\ last_update_limit_warn = None
    /\ update_queue_limit = None
    /\ now = 0
    /\ session = EmptySession
    /\ panicked = FALSE
    /\ lastExtend = None
    /\ message_box = InitialMessageBox
    /\ chat_hashes = [c \in Channels |-> "unknown"]
    /\ lock = 0
    /\ pc = [t \in Tasks |-> "top"]
    /\ req = [t \in Tasks |-> None]
    /\ res = [t \in Tasks |-> EmptyResult]
    /\ idx = [t \in Tasks |-> 0]
    /\ maybe_response = [t \in Tasks |-> None]
    /\ ret = [t \in Tasks |-> None]
    /\ restored = None
    /\ napplied = [b \in Boxes |-> 0]
    /\ queued = [b \in Boxes |-> << >>]
    /\ lastVerdict = None
    /\ drops = NoDrops
    /\ retry = IdleRetry
    /\ \E def \in Definitions : \E x \in StructValues(def) :
         codec = [pc |-> "value", def |-> def, x |-> x, bytes |-> << >>,
                  back |-> NoResult]

\* x.serialize(buf)
CodecSerialize ==
    /\ codec.pc = "value"
    /\ codec' = [codec EXCEPT !.pc = "bytes",
                              !.bytes = Serialize(codec.def, codec.x)]
    /\ UNCHANGED << queueVars, update_queue_limit, now, session, restored,
                    retry, panicked, message_box, chat_hashes, taskVars,
                    histVars >>

\* Name::deserialize(buf)
CodecDeserialize ==
    /\ codec.pc = "bytes"
    /\ codec' = [codec EXCEPT !.pc = "done",
                              !.back = Deserialize(codec.def, codec.bytes)]
    /\ UNCHANGED << queueVars, update_queue_limit, now, session, restored,
                    retry, panicked, message_box, chat_hashes, taskVars,
                    histVars >>

CodecNext == CodecSerialize \/ CodecDeserialize

SpecCodec == CodecInit /\ [][CodecNext]_vars

(* ------------------------------- claims -------------------------------- *)
\* C1: for every box, the updates of that box that were appended to the
\* update queue appear in queue order with strictly increasing pts_now.
C1_QueueOrderPerBox ==
    \A b \in Boxes :
        \A i, j \in 1..Len(queued[b]) :
            i < j => queued[b][i].pts < queued[b][j].pts

\* C2: no update is delivered twice: at most one update with a given
\* (box, pts_now) is ever appended to the queue.
C2_DeliveredOnce ==
    \A b \in Boxes :
        \A i, j \in 1..Len(queued[b]) :
            i /= j => queued[b][i].pts /= queued[b][j].pts

\* C3: no step of process_updates, check_deadlines, apply_difference,
\* apply_channel_difference or end_channel_difference decreases the pts of a
\* box that exists before and after it.
C3_PtsNeverDecreases ==
    [][\A b \in message_box.boxes \cap message_box'.boxes :
          message_box'.pts[b] >= message_box.pts[b]]_vars

\* C4 as stated: an update is stale exactly when pts_now <= box.pts, applies
\* exactly when box.pts + pts_count = pts_now and is a gap exactly when
\* pts_now > box.pts + pts_count.
C4_AsStated ==
    lastVerdict /= None =>
        LET v == Unwrap(lastVerdict)
        IN  /\ (v.verdict = "stale") <=> (v.u.pts <= v.local)
            /\ (v.verdict = "apply") <=> (v.local + v.u.count = v.u.pts)
            /\ (v.verdict = "gap") <=> (v.u.pts > v.local + v.u.count)

\* C4, amended: an update is stale exactly when pts_now < box.pts +
\* pts_count, applies exactly when box.pts + pts_count = pts_now and is a gap
\* exactly when pts_now > box.pts + pts_count; exactly one of the three holds,
\* and only an update that applies is handed on and moves the box.
C4_Classification ==
    lastVerdict /= None =>
        LET v == Unwrap(lastVerdict)
        IN  /\ v.verdict \in {"stale", "apply", "gap"}
            /\ (v.verdict = "stale") <=> (v.u.pts < v.local + v.u.count)
            /\ (v.verdict = "apply") <=> (v.local + v.u.count = v.u.pts)
            /\ (v.verdict = "gap") <=> (v.u.pts > v.local + v.u.count)
            /\ v.applied <=> (v.local + v.u.count = v.u.pts)

\* C4 witness: an update with pts_now > box.pts was dropped as stale.
C4_Witness ==
    /\ lastVerdict /= None
    /\ Unwrap(lastVerdict).verdict = "stale"
    /\ Unwrap(lastVerdict).u.pts > Unwrap(lastVerdict).local

\* C5: when process_socket_updates skips a container because a peer it
\* references has no known hash, MessageBox is left as it was, nothing is
\* applied, merged or queued, and the loop goes on with the next container;
\* no box ever exists for a channel whose hash is unknown.
C5_UnknownPeerDropsContainer ==
    [][/\ \A t \in Tasks :
            (/\ pc[t] = "psu" /\ pc'[t] = "psu"
             /\ idx'[t] = idx[t] + 1
             /\ (idx[t] + 1) \notin res'[t].maps)
            => /\ message_box' = message_box
               /\ updates' = updates
               /\ res'[t] = res[t]
               /\ napplied' = napplied
       /\ \A c \in Channels :
            c \in message_box'.boxes => chat_hashes'[c] /= "unknown"]_vars

\* C5 witness: the first container of a batch was dropped for an unknown
\* peer and the second one was applied.
C5_Witness ==
    \E t \in Tasks :
        /\ pc[t] = "psu"
        /\ res[t].maps = {2}
        /\ res[t].updates /= << >>

\* C6: when the locked section of process_socket_updates ends, every update
\* it applied is handed to extend_update_queue by the same call.
C6_SocketUpdatesQueued ==
    [][\A t \in Tasks :
          (pc[t] = "psu" /\ pc'[t] /= "psu")
          => \/ res[t].updates = << >>
             \/ (pc'[t] = "ext" /\ res'[t] = res[t])]_vars

\* C7: for every box, the order in which its updates were appended to the
\* queue is the order in which MessageBox applied them.
C7_QueueOrderIsApplyOrder ==
    \A b \in Boxes :
        \A i, j \in 1..Len(queued[b]) :
            i < j => queued[b][i].stamp < queued[b][j].stamp

\* C8: the chat map paired with a queued update holds the users and chats of
\* the container that carried the update, and of no other container.
C8_ChatMapOfOwnContainer ==
    \A i \in 1..Len(updates) : updates[i].map = {updates[i].u.cont}

\* C9: with a limit the queue never holds more than limit entries; without
\* one, extend_update_queue drops nothing.
C9_QueueWithinLimit ==
    /\ IsSome(update_queue_limit) => Len(updates) <= Unwrap(update_queue_limit)
    /\ (update_queue_limit = None /\ lastExtend /= None) =>
          LET e == Unwrap(lastExtend)
          IN  Len(e.new) = Len(e.old) + Len(e.batch)

\* C9 witness: an extend overflowed and left the queue full.
C9_Witness ==
    /\ IsSome(update_queue_limit)
    /\ Len(updates) = Unwrap(update_queue_limit)
    /\ lastExtend /= None
    /\ Unwrap(lastExtend).dropped > 0
    /\ Unwrap(lastExtend).new = updates

\* C10: an extend that overflows leaves the entries already queued as they
\* were and appends exactly the first (limit - old length) updates of the
\* incoming batch, in batch order.
C10_OverflowDropsNewest ==
    (lastExtend /= None /\ IsSome(update_queue_limit)) =>
        LET e == Unwrap(lastExtend)
            limit == Unwrap(update_queue_limit)
            room == limit - Len(e.old)
        IN  Len(e.old) + Len(e.batch) > limit =>
              /\ Len(e.new) = limit
              /\ SubSeq(e.new, 1, Len(e.old)) = e.old
              /\ \A i \in 1..room : e.new[Len(e.old) + i].u = e.batch[i]

\* C10 witness: an extend overflowed with room for some but not all of a
\* batch, on a queue that held entries.
C10_Witness ==
    /\ lastExtend /= None
    /\ LET e == Unwrap(lastExtend)
       IN  /\ e.old /= << >>
           /\ Len(e.new) > Len(e.old)
           /\ Len(e.new) < Len(e.old) + Len(e.batch)

\* C11: a task that enters the loop of next_raw_update while the queue holds
\* an update returns the oldest entry, removes exactly that entry, issues no
\* request and leaves MessageBox and the peer hashes as they were.
C11_PopFrontIsFifo ==
    [][\A t \in Tasks :
          (pc[t] = "top" /\ updates /= << >> /\ pc'[t] /= "top")
          => /\ pc'[t] = "returned"
             /\ ret'[t] = Some(Ok(Head(updates)))
             /\ updates' = Tail(updates)
             /\ message_box' = message_box
             /\ chat_hashes' = chat_hashes
             /\ req' = req]_vars

\* C11 witness: a call returned the head of a queue that held two entries.
C11_Witness ==
    \E t \in Tasks :
        /\ pc[t] = "returned"
        /\ IsSome(ret[t]) /\ Unwrap(ret[t]).ok
        /\ updates /= << >>

C13_ChannelDifferenceErrors ==
    [][\A t \in Tasks :
          (pc[t] = "chanerr" /\ pc'[t] /= "chanerr")
          => LET e == Unwrap(maybe_response[t])
                 r == Unwrap(req[t])
                 temporary == \/ (e.rpc /\ e.name = "PERSISTENT_TIMESTAMP_OUTDATED")
                              \/ (e.rpc /\ e.code = 500)
                 private == e.rpc /\ e.name = "CHANNEL_PRIVATE"
             IN  /\ temporary =>
                      /\ message_box' = EndChannelDifference(
                                            message_box, r, "TemporaryServerIssues")
                      /\ pc'[t] = "top" /\ ret'[t] = None
                 /\ private =>
                      /\ message_box' = EndChannelDifference(message_box, r, "Banned")
                      /\ pc'[t] = "top" /\ ret'[t] = None
                 /\ (~temporary /\ ~private) =>
                      /\ message_box' = message_box
                      /\ pc'[t] = "returned" /\ ret'[t] = Some(Err(e))]_vars

\* C13 witness: a FLOOD_WAIT answer to getChannelDifference was returned to
\* the caller and the channel is still getting its difference.
C13_Witness ==
    \E t \in Tasks :
        /\ pc[t] = "returned"
        /\ ret[t] = Some(Err([rpc |-> TRUE, code |-> 420, name |-> "FLOOD_WAIT"]))
        /\ message_box.getting_diff = {"c1"}

\* C14: ending a channel difference with TemporaryServerIssues changes the
\* pts of no box, removes no box, and neither applies nor queues an update.
C14_TemporaryIssuesKeepPts ==
    [][\A t \in Tasks :
          (/\ pc[t] = "chanerr" /\ pc'[t] = "top"
           /\ LET e == Unwrap(maybe_response[t])
              IN  e.rpc /\ (e.name = "PERSISTENT_TIMESTAMP_OUTDATED" \/ e.code = 500))
          => /\ message_box'.pts = message_box.pts
             /\ message_box'.boxes = message_box.boxes
             /\ updates' = updates
             /\ res' = res
             /\ napplied' = napplied
             /\ queued' = queued]_vars

\* C14 witness: the difference of a channel that has a pts of its own was
\* ended after an error of status 500, and the loop started over.
C14_Witness ==
    \E t \in Tasks :
        /\ pc[t] = "top"
        /\ IsSome(maybe_response[t])
        /\ Unwrap(maybe_response[t]).code = 500
        /\ \E c \in Channels :
              /\ c \in message_box.boxes
              /\ message_box.pts[c] > 0
              /\ c \notin message_box.getting_diff

C16_DifferenceErrorKeepsState ==
    [][\A t \in Tasks :
          /\ (pc[t] = "diff" /\ pc'[t] \notin {"diff", "ext"})
             => /\ pc'[t] = "returned"
                /\ IsSome(ret'[t]) /\ ~Unwrap(ret'[t]).ok
                /\ Unwrap(ret'[t]).val \in InvocationErrors
                /\ message_box' = message_box
                /\ updates' = updates
                /\ "common" \in message_box'.getting_diff
                /\ GetDifference(message_box') = req[t]
          /\ (/\ pc[t] = "top" /\ pc'[t] \notin {"top", "returned"}
              /\ "common" \in message_box.getting_diff)
             => /\ pc'[t] = "diff"
                /\ req'[t] = Some([box |-> "common",
                                    pts |-> message_box.pts["common"],
                                    qts |-> message_box.qts,
                                    date |-> message_box.date])]_vars

\* C16 witness: getDifference failed for a common box that has a pts of its
\* own; the error was returned and the box is still getting its difference.
C16_Witness ==
    \E t \in Tasks :
        /\ pc[t] = "returned"
        /\ IsSome(ret[t]) /\ ~Unwrap(ret[t]).ok
        /\ Unwrap(ret[t]).val.name = "INTERNAL"
        /\ "common" \in message_box.getting_diff
        /\ message_box.pts["common"] > 0

\* A channel box that is behind: getting its difference, or holding updates
\* that arrived ahead of a gap.
Degraded(mb, d) ==
    /\ d \in Channels /\ d \in mb.boxes
    /\ (d \in mb.getting_diff \/ mb.pending[d] /= << >>)

\* The container that carries the next in-order update of box b.
InOrderContainer(mb, b, n) ==
    [kind |-> "updates", seq_start |-> 0, seq |-> 0, date |-> 0,
     ups |-> << [box |-> b, pts |-> mb.pts[b] + n, count |-> n, cont |-> 1] >>,
     supplies |-> {}]

\* C17, applying: while a channel is degraded, process_updates applies the
\* next in-order update of any other box that is not itself getting a
\* difference, and hands it on.
C17_StillApplied ==
    \A d \in Channels :
        Degraded(message_box, d) =>
            \A b \in (message_box.boxes \ message_box.getting_diff) \ {d} :
                \A n \in PtsCounts :
                    LET c == InOrderContainer(message_box, b, n)
                        r == ProcessUpdates(message_box, c)
                    IN  /\ KnownPeers(message_box, chat_hashes, c)
                        /\ r.ok
                        /\ r.out /= << >> /\ Head(r.out) = c.ups[1]
                        /\ r.mb.pts[b] >= c.ups[1].pts

\* C17, requesting: while a channel is degraded, the difference of the common
\* box is requested as soon as it is pending, and the difference of another
\* pending channel is requested now or right after the degraded channel's.
C17_StillRequested ==
    \A d \in Channels :
        Degraded(message_box, d) =>
            /\ "common" \in message_box.getting_diff =>
                  IsSome(GetDifference(message_box))
            /\ \A b \in Pending(message_box, chat_hashes) \ {d} :
                  LET first == GetChannelDifference(message_box, chat_hashes)
                      second == GetChannelDifference(Served(message_box, first),
                                                     chat_hashes)
                  IN  /\ IsSome(first)
                      /\ Unwrap(first).box = d => Unwrap(second).box = b

\* C17, queueing: while a channel is degraded, once the task is between two
\* operations every update applied for another box has been queued.
C17_StillQueued ==
    \A d \in Channels :
        (Degraded(message_box, d) /\ pc[1] \in {"top", "wait", "returned"}) =>
            \A b \in Boxes \ {d} : napplied[b] = Len(queued[b])

\* C17: one degraded channel box does not stall another box: in-order
\* updates of the common box and of other channels are still applied and
\* queued, and the pending differences of those boxes are still requested.
C17_DegradedBoxDoesNotStall ==
    /\ C17_StillApplied
    /\ C17_StillRequested
    /\ C17_StillQueued

\* C20: as long as no update intervenes after set_state(s), session_state()
\* is s (and so is what sync_update_state stores), and the channel boxes are
\* exactly the channels s lists, each at its stored pts.
C20_SessionRoundTrip ==
    IsSome(restored) =>
        LET snap == Unwrap(restored)
        IN  /\ SessionState(message_box) = snap
            /\ session = snap
            /\ message_box.boxes \cap Channels = DOMAIN snap.channels
            /\ \A c \in DOMAIN snap.channels : message_box.pts[c] = snap.channels[c]

\* C20 witness: MessageBox was restored from a snapshot that lists one of the
\* two channels, and the session holds what session_state() gives.
C20_Witness ==
    /\ IsSome(restored)
    /\ DOMAIN Unwrap(restored).channels = {"c2"}
    /\ Unwrap(restored).channels["c2"] > 0
    /\ Unwrap(restored).pts > 0
    /\ session = SessionState(message_box)

\* C18: a channel that is in getting_diff with a known hash is eventually the
\* one get_channel_difference yields a request for (the request is in flight
\* or its failure is being handled), whichever other channels keep
\* re-entering getting_diff.
C18_SelectionStarvationFree ==
    \A c \in Channels :
        (c \in Pending(message_box, chat_hashes))
            ~> (pc[1] \in {"chandiff", "chanerr"} /\ Unwrap(req[1]).box = c)

\* C18 witness: the request is for the second channel while the first one is
\* pending too and was the one served last.
C18_Witness ==
    /\ pc[1] = "chandiff"
    /\ Unwrap(req[1]).box = "c2"
    /\ "c1" \in Pending(message_box, chat_hashes)
    /\ napplied["c1"] > 0

\* C19: ending a channel difference with TemporaryServerIssues takes the
\* channel out of getting_diff with nothing due for it, and the loop starts
\* over; a channel only enters getting_diff when its deadline has passed or
\* its gap window has elapsed with updates buffered, and a request is only
\* issued for a channel in getting_diff; a turn of the loop that finds the
\* queue empty and no difference to request goes to the timed wait.
C19_NoRetryUntilGapOrDeadline ==
    [][/\ \A t \in Tasks :
            /\ (/\ pc[t] = "chanerr" /\ pc'[t] /= "chanerr"
                /\ LET e == Unwrap(maybe_response[t])
                   IN  e.rpc /\ (e.name = "PERSISTENT_TIMESTAMP_OUTDATED"
                                 \/ e.code = 500))
               => /\ pc'[t] = "top"
                  /\ req'[t] = None
                  /\ Unwrap(req[t]).box \notin message_box'.getting_diff
                  /\ ~Due(message_box', Unwrap(req[t]).box)
            /\ (pc[t] = "top" /\ pc'[t] = "chandiff")
               => Unwrap(req'[t]).box \in message_box'.getting_diff
            /\ (/\ pc[t] = "top" /\ pc'[t] \notin {"top", "returned"}
                /\ "common" \notin message_box'.getting_diff
                /\ Pending(message_box', chat_hashes) = {})
               => pc'[t] = "wait"
       /\ \A c \in Channels :
            (c \notin message_box.getting_diff /\ c \in message_box'.getting_diff)
            => Due(message_box, c)]_vars

\* C19 witness: a channel difference was ended after an error of status 500;
\* the queue is empty and no box is getting a difference or is due for one,
\* so the next turn of the loop goes to the timed wait.
C19_Witness ==
    \E t \in Tasks :
        /\ pc[t] = "top"
        /\ IsSome(maybe_response[t])
        /\ Unwrap(maybe_response[t]).code = 500
        /\ updates = << >>
        /\ message_box.getting_diff = {}
        /\ \A b \in Boxes : ~Due(message_box, b)

\* C21: a task that is suspended at an await of next_raw_update does not hold
\* the lock on the shared state; the lock is held only by a task inside the
\* synchronous loop of process_socket_updates.
C21_NoLockAcrossAwait ==
    /\ \A t \in Tasks : Suspended(t) => lock /= t
    /\ lock /= 0 => pc[lock] = "psu"

\* C21 witness: one task awaits the getDifference response while the other
\* one holds the lock in process_socket_updates.
C21_Witness ==
    \E t, o \in Tasks :
        /\ pc[t] = "diff"
        /\ lock = o /\ o /= t
        /\ idx[o] > 0

\* C22: a call of next_raw_update can only be abandoned at one of its awaits,
\* where it holds no update that was applied and not yet queued; abandoning it
\* changes neither MessageBox nor the peer hashes nor the queue; and the next
\* call that finds the queue empty issues the request of a box that was left
\* in getting_diff, with the box's current pts.
C22_CancelLeavesState ==
    [][\A t \in Tasks :
          /\ (pc'[t] = "returned" /\ pc[t] /= "returned" /\ ret'[t] = None)
             => /\ Suspended(t)
                /\ res[t] = EmptyResult
                /\ message_box' = message_box
                /\ chat_hashes' = chat_hashes
                /\ updates' = updates
                /\ napplied' = napplied
                /\ queued' = queued
          /\ (pc[t] = "top" /\ updates = << >> /\ pc'[t] /= "top")
             => /\ "common" \in message_box.getting_diff
                   => /\ pc'[t] = "diff"
                      /\ Unwrap(req'[t]).pts = message_box.pts["common"]
                /\ ("common" \notin message_box'.getting_diff
                    /\ Pending(message_box, chat_hashes) /= {})
                   => /\ pc'[t] = "chandiff"
                      /\ Unwrap(req'[t]).box \in Pending(message_box', chat_hashes)
                      /\ Unwrap(req'[t]).pts
                            = message_box.pts[Unwrap(req'[t]).box]]_vars

\* C22 witness: a call was abandoned while the common box, which has a pts of
\* its own, is getting its difference.
C22_Witness ==
    \E t \in Tasks :
        /\ pc[t] = "returned" /\ ret[t] = None
        /\ "common" \in message_box.getting_diff
        /\ message_box.pts["common"] > 0

\* C23: the client keeps count of the updates dropped by queue overflow: the
\* number it has reported is the sum, over the extends that overflowed, of
\* old queue length + batch length - limit.
C23_DropsCounted ==
    drops.warned = drops.overflow

\* The pts_now of a sequence of updates, in order.
PtsOf(q) ==
    [i \in 1..Len(q) |-> q[i].pts]

\* The hard gap scenario has run: the box was at GapStart with the update
\* (GapTop, 1) buffered and its gap window elapsed, get_difference yielded a
\* request with pts GapStart, the final response echoing GapTop was applied
\* and its result was pushed.
HardGapLanded ==
    /\ lastVerdict /= None
    /\ Unwrap(lastVerdict).op = "difference"
    /\ Unwrap(lastVerdict).request.pts = GapStart
    /\ Unwrap(lastVerdict).d.kind = "final"
    /\ Unwrap(lastVerdict).d.pts = GapTop
    /\ PtsOf(Unwrap(lastVerdict).before.pending) = << GapTop >>
    /\ Unwrap(lastVerdict).before.until = "elapsed"
    /\ pc[1] /= "ext"

C25_GapIsBuffered ==
    [][/\ (/\ lastVerdict' /= lastVerdict
           /\ Unwrap(lastVerdict').op = "update"
           /\ ~Unwrap(lastVerdict').before.getting_diff
           /\ Unwrap(lastVerdict').u.pts - Unwrap(lastVerdict').u.count
                 > Unwrap(lastVerdict').before.pts)
          => LET v == Unwrap(lastVerdict')
             IN  /\ v.verdict = "gap"
                 /\ v.out = << >>
                 /\ v.after.pts = v.before.pts
                 /\ PtsOf(v.after.pending)
                       = Append(PtsOf(v.before.pending), v.u.pts)
                 /\ v.after.until = IF v.before.until = "unset" THEN "armed"
                                    ELSE v.before.until
                 /\ ~v.after.getting_diff
                 /\ BoxView(message_box', "common") = v.after
                 /\ updates' = updates
                 /\ queued' = queued
                 /\ napplied' = napplied
       /\ (pc[1] = "top" /\ pc'[1] \notin {"top", "returned"})
          => /\ (/\ message_box.until["common"] = "elapsed"
                 /\ message_box.pending["common"] /= << >>)
                => "common" \in message_box'.getting_diff
             /\ (/\ "common" \notin message_box.getting_diff
                 /\ "common" \in message_box'.getting_diff
                 /\ message_box.deadline["common"] = "future")
                => /\ message_box.until["common"] = "elapsed"
                   /\ message_box.pending["common"] /= << >>]_vars

\* C25 witness: a second update arrived ahead of the box after the gap window
\* of the first one had elapsed; both are buffered and the window was not
\* restarted.
C25_Witness ==
    /\ lastVerdict /= None
    /\ Unwrap(lastVerdict).op = "update"
    /\ Unwrap(lastVerdict).verdict = "gap"
    /\ Unwrap(lastVerdict).before.until = "elapsed"
    /\ Len(message_box.pending["common"]) = 2
    /\ message_box.until["common"] = "elapsed"

\* Ascending and without a hole: each update starts where the one before it
\* ended.
Consecutive(out) ==
    \A i \in 1..(Len(out) - 1) : out[i + 1].pts - out[i + 1].count = out[i].pts

\* C26: when an in-order update is applied, the buffered updates that have
\* become in-order are applied after it in ascending pts order, whatever the
\* order they arrived in, the ones that have become stale are discarded, and
\* what stays buffered is still ahead of the box; the applied updates are
\* queued in that order.
C26_FlushInPtsOrder ==
    [][(/\ lastVerdict' /= lastVerdict
        /\ Unwrap(lastVerdict').op = "update"
        /\ Unwrap(lastVerdict').verdict = "apply")
       => LET v == Unwrap(lastVerdict')
              buffered == {v.before.pending[i].pts :
                              i \in 1..Len(v.before.pending)}
              flushed == {v.out[i].pts : i \in 2..Len(v.out)}
              kept == {v.after.pending[i].pts : i \in 1..Len(v.after.pending)}
          IN  /\ v.out /= << >>
              /\ v.out[1].pts = v.u.pts
              /\ v.u.pts - v.u.count = v.before.pts
              /\ Consecutive(v.out)
              /\ v.after.pts = v.out[Len(v.out)].pts
              /\ flushed \subseteq buffered
              /\ kept \subseteq buffered
              /\ \A p \in buffered :
                    /\ p \in kept <=> p - 1 > v.after.pts
                    /\ p \in flushed => (p > v.u.pts /\ p <= v.after.pts)
                    /\ (p > v.u.pts /\ p <= v.after.pts) => p \in flushed
              /\ ~v.after.getting_diff
              /\ [i \in 1..(Len(updates') - Len(updates)) |->
                      updates'[Len(updates) + i].u.pts] = PtsOf(v.out)
              /\ [i \in 1..Len(updates) |-> updates'[i]] = updates]_vars

\* C26 witness: from pts GapStart the updates GapStart + 3 and GapStart + 2
\* were buffered in that order, then GapStart + 1 arrived; the box is at
\* GapStart + 3 and the three were queued in pts order, all from the socket,
\* with no difference requested.
C26_Witness ==
    /\ lastVerdict /= None
    /\ Unwrap(lastVerdict).op = "update"
    /\ PtsOf(Unwrap(lastVerdict).before.pending)
          = << GapStart + 3, GapStart + 2 >>
    /\ Unwrap(lastVerdict).before.pts = GapStart
    /\ Unwrap(lastVerdict).u.pts = GapStart + 1
    /\ message_box.pts["common"] = GapStart + 3
    /\ message_box.pending["common"] = << >>
    /\ message_box.getting_diff = {}
    /\ PtsOf(queued["common"]) = << GapStart + 1, GapStart + 2, GapStart + 3 >>

\* C27: while the common box is getting a difference, an update that
\* process_updates routes to it is buffered: it is not applied, not queued,
\* and the pts of the box stays. A slice leaves the buffer as it is. When the
\* difference has landed (empty or final response), every buffered update
\* that continues the box is applied after the updates of the difference,
\* every one at or behind the box is discarded, and every one still ahead
\* stays buffered.
C27_BufferedDuringDifference ==
    [][/\ (/\ lastVerdict' /= lastVerdict
           /\ Unwrap(lastVerdict').op = "update"
           /\ Unwrap(lastVerdict').before.getting_diff)
          => LET v == Unwrap(lastVerdict')
             IN  /\ v.verdict = "buffer"
                 /\ v.out = << >>
                 /\ v.after.pts = v.before.pts
                 /\ v.after.getting_diff
                 /\ PtsOf(v.after.pending)
                       = Append(PtsOf(v.before.pending), v.u.pts)
                 /\ message_box'.pts = message_box.pts
                 /\ updates' = updates
                 /\ queued' = queued
                 /\ napplied' = napplied
       /\ (pc[1] = "diff" /\ pc'[1] = "ext")
          => LET v == Unwrap(lastVerdict')
                 n == Len(v.d.ups)
                 flushed == SubSeq(v.out, n + 1, Len(v.out))
                 buffered == {v.before.pending[i].pts :
                                 i \in 1..Len(v.before.pending)}
                 kept == {v.after.pending[i].pts :
                             i \in 1..Len(v.after.pending)}
                 applied == {flushed[i].pts : i \in 1..Len(flushed)}
             IN  /\ SubSeq(v.out, 1, n) = v.d.ups
                 /\ v.d.kind = "slice"
                    => /\ v.after.pending = v.before.pending
                       /\ v.after.getting_diff
                       /\ flushed = << >>
                 /\ v.d.kind /= "slice"
                    => /\ ~v.after.getting_diff
                       /\ Consecutive(<< [pts |-> v.d.pts, count |-> 1] >>
                                      \o flushed)
                       /\ v.after.pts = IF flushed = << >> THEN v.d.pts
                                        ELSE flushed[Len(flushed)].pts
                       /\ applied \subseteq buffered
                       /\ kept \subseteq buffered
                       /\ \A p \in buffered :
                             /\ p \in kept <=> p - 1 > v.after.pts
                             /\ p \in applied
                                  <=> (p > v.d.pts /\ p <= v.after.pts)]_vars

\* C27 witness: two updates were buffered while the box was getting its
\* difference; when the final response landed one of them continued the box
\* and was applied, the other one is still ahead and stays buffered.
C27_Witness ==
    /\ lastVerdict /= None
    /\ Unwrap(lastVerdict).op = "difference"
    /\ Unwrap(lastVerdict).d.kind = "final"
    /\ Unwrap(lastVerdict).before.until = "unset"
    /\ Len(Unwrap(lastVerdict).before.pending) = 2
    /\ Len(Unwrap(lastVerdict).out) = Len(Unwrap(lastVerdict).d.ups) + 1
    /\ Len(Unwrap(lastVerdict).after.pending) = 1

\* C28: the common box leaves getting_diff only when an empty or a final
\* difference response is applied. A slice applies its updates and stores
\* the echoed state but leaves getting_diff set, so get_difference yields a
\* request with the echoed pts, qts and date, and the next turn of the loop
\* that finds the queue empty sends it.
C28_SliceKeepsGettingDiff ==
    [][/\ ("common" \in message_box.getting_diff
           /\ "common" \notin message_box'.getting_diff)
          => /\ pc[1] = "diff" /\ pc'[1] = "ext"
             /\ Unwrap(lastVerdict').op = "difference"
             /\ Unwrap(lastVerdict').d.kind \in {"empty", "final"}
             /\ GetDifference(message_box') = None
       /\ (/\ pc[1] = "diff" /\ pc'[1] = "ext"
           /\ Unwrap(lastVerdict').d.kind = "slice")
          => LET d == Unwrap(lastVerdict').d
             IN  /\ "common" \in message_box'.getting_diff
                 /\ message_box'.pts["common"] = d.pts
                 /\ message_box'.qts = d.qts
                 /\ message_box'.date = d.date
                 /\ PtsOf(res'[1].updates) = PtsOf(d.ups)
                 /\ GetDifference(message_box')
                       = Some([box |-> "common", pts |-> d.pts, qts |-> d.qts,
                               date |-> d.date])
       /\ (/\ pc[1] = "top" /\ pc'[1] \notin {"top", "returned"}
           /\ "common" \in message_box.getting_diff)
          => /\ pc'[1] = "diff"
             /\ req'[1] = GetDifference(message_box)]_vars

\* C28 witness: after a slice that echoed GapStart + 1 and a later qts, the
\* queue was drained and the request for the rest was sent with that state.
C28_Witness ==
    /\ lastVerdict /= None
    /\ Unwrap(lastVerdict).op = "difference"
    /\ Unwrap(lastVerdict).d.kind = "slice"
    /\ Unwrap(lastVerdict).d.pts = GapStart + 1
    /\ Unwrap(lastVerdict).d.qts > 0
    /\ pc[1] = "diff"
    /\ Unwrap(req[1]).pts = GapStart + 1
    /\ Unwrap(req[1]).qts = Unwrap(lastVerdict).d.qts

NonMinFor(batch, q) ==
    SelectSeq(batch, LAMBDA e : e.peer = q /\ ~e.min)

\* C31: after an extend call, a peer whose stored entry was non-min and that
\* the call supplied only min entries for keeps its access hash and
\* is_min = false; a peer the call supplied a non-min entry for holds the
\* last such entry, whatever was stored; and a peer that was known is still
\* known.
C31_MinOverride ==
    lastVerdict /= None =>
        LET v == Unwrap(lastVerdict)
        IN  \A q \in Peers :
              LET full == NonMinFor(v.batch, q)
              IN  /\ (v.before[q].known /\ ~v.before[q].min /\ full = << >>)
                        => chat_hashes[q] = v.before[q]
                  /\ full /= << >>
                        => chat_hashes[q] = Entry(full[Len(full)].hash, FALSE)
                  /\ v.before[q].known => chat_hashes[q].known

\* C31 witness: a peer stored with a non-min hash was supplied again as a min
\* entry with another hash, and its entry is as it was.
C31_Witness ==
    /\ lastVerdict /= None
    /\ \E q \in Peers :
         /\ Unwrap(lastVerdict).before[q].known
         /\ ~Unwrap(lastVerdict).before[q].min
         /\ \E i \in 1..Len(Unwrap(lastVerdict).batch) :
              /\ Unwrap(lastVerdict).batch[i].peer = q
              /\ Unwrap(lastVerdict).batch[i].min
              /\ Unwrap(lastVerdict).batch[i].hash
                    /= Unwrap(lastVerdict).before[q].hash
         /\ chat_hashes[q] = Unwrap(lastVerdict).before[q]

\* C32: an extend that overflows the queue logs the warning if and only if
\* no warning has been logged yet or more than the cooldown has passed since
\* the last warning that was logged.
C32_WarnOncePerCooldown ==
    [][(lastExtend' /= lastExtend /\ Unwrap(lastExtend').dropped > 0)
          => (Unwrap(lastExtend').warn
                <=> \/ lastVerdict = None
                    \/ now - Unwrap(lastVerdict).at
                          > UPDATE_LIMIT_EXCEEDED_LOG_COOLDOWN)]_vars

\* A channel request was selected in a turn of the loop that sends the
\* getDifference of the common box, and was dropped unsent.
Discarded(c) ==
    /\ pc[1] = "diff"
    /\ message_box.last_channel = c
    /\ c \in Pending(message_box, chat_hashes)

\* The next turn of the loop finds the queue empty and both get_difference
\* and get_channel_difference yield a request, the latter for channel c.
BothDue(c) ==
    /\ pc[1] = "top" /\ updates = << >> /\ ~panicked
    /\ LET mb == CheckDeadlines(message_box)
       IN  /\ IsSome(GetDifference(mb))
           /\ IsSome(GetChannelDifference(mb, chat_hashes))
           /\ Unwrap(GetChannelDifference(mb, chat_hashes)).box = c

C34_NoUnderflow ==
    /\ ~panicked
    /\ lastExtend /= None =>
         LET e == Exceeds(Unwrap(lastExtend).old, update_queue_limit,
                          Unwrap(lastExtend).batch)
         IN  IsSome(e) => Unwrap(e) <= Len(Unwrap(lastExtend).batch)

\* C34 for the limits below usize::MAX.
C34_NoUnderflowBelowMax ==
    update_queue_limit /= Some(UsizeMax) => C34_NoUnderflow

\* C35: retrying! terminates under the Fixed and NoRetry policies: after the
\* k-th failed evaluation of the body it evaluates the body again exactly
\* when should_retry(k) is Continue; with Fixed { attempts: N } the body is
\* evaluated at most N + 1 times and with NoRetry exactly once.
C35_RetryTerminates ==
    /\ [](Len(retry.evals)
            <= IF retry.policy.kind = "Fixed" THEN retry.policy.attempts + 1
               ELSE 1)
    /\ []((retry.pc = "done" /\ retry.policy.kind = "NoRetry")
            => Len(retry.evals) = 1)
    /\ [][(retry.pc = "body" /\ ~retry'.evals[Len(retry'.evals)].ok)
            => /\ (retry'.pc = "sleep")
                    <=> (ShouldRetry(retry.policy, Len(retry'.evals)).flow
                           = "Continue")
               /\ (retry'.pc = "done")
                    <=> (ShouldRetry(retry.policy, Len(retry'.evals)).flow
                           = "Break")]_vars
    /\ [][(retry.pc = "sleep") => (retry'.pc = "body")]_vars
    /\ <>(retry.pc = "done")

\* C35 witness: under Fixed { attempts: MaxAttempts } every evaluation
\* failed, and the macro has returned after MaxAttempts + 1 of them.
C35_Witness ==
    /\ retry.pc = "done"
    /\ retry.policy.kind = "Fixed"
    /\ retry.policy.attempts = MaxAttempts
    /\ Len(retry.evals) = MaxAttempts + 1
    /\ ~Unwrap(retry.out).ok

\* C36: retrying! returns Ok(value) of the first successful evaluation, which
\* is the last evaluation; when the policy breaks it returns the error of
\* the last evaluation; it sleeps for the policy's delay between every two
\* consecutive evaluations and at no other time.
C36_RetryResult ==
    /\ \A i \in 1..(Len(retry.evals) - 1) : ~retry.evals[i].ok
    /\ retry.pc = "done"
         => /\ retry.out = Some(retry.evals[Len(retry.evals)])
            /\ ~Unwrap(retry.out).ok
                 => ShouldRetry(retry.policy, Len(retry.evals)) = Break
            /\ Len(retry.sleeps) = Len(retry.evals) - 1
    /\ retry.pc = "body" => Len(retry.sleeps) = Len(retry.evals)
    /\ retry.pc = "sleep" => Len(retry.sleeps) = Len(retry.evals)
    /\ \A i \in 1..Len(retry.sleeps) :
         /\ retry.sleeps[i].after = i
         /\ retry.sleeps[i].delay = retry.policy.delay

\* C36 witness: the first evaluation failed with error 1, the macro slept,
\* the second failed with error 2, the policy broke and error 2 was
\* returned.
C36_Witness ==
    /\ retry.pc = "done"
    /\ Len(retry.evals) = 2
    /\ retry.evals[1] = Err(1)
    /\ retry.out = Some(Err(2))
    /\ Len(retry.sleeps) = 1

\* The parameters of def conditioned on bit i of the flags word n.
Users(def, n, i) ==
    {j \in 1..Len(def) : def[j].cond /\ def[j].name = n /\ def[j].index = i}

\* Where the flags word at position j lies in the bytes of x.
WordAt(def, x, j) == Len(Serialize(SubSeq(def, 1, j - 1), SubSeq(x, 1, j - 1))) + 1

\* Parameters that share a bit are all present or all absent.
Consistent(def, x) ==
    \A j, k \in 1..Len(def) :
        (def[j].cond /\ def[k].cond /\ def[j].name = def[k].name
           /\ def[j].index = def[k].index)
          => x[j].present = x[k].present

\* Serialization sets bit i of a flags word exactly when some parameter
\* conditioned on that bit of that word is present, and deserialization
\* finds a conditional parameter present exactly when its bit is set.
FlagsFaithful ==
    /\ codec.pc \in {"bytes", "done"}
         => \A j \in 1..Len(codec.def) : \A i \in 0..MaxFlagIndex :
              codec.def[j].kind = "flags"
                => (BitSet(codec.bytes[WordAt(codec.def, codec.x, j)], i)
                      <=> \E k \in Users(codec.def, codec.def[j].name, i) :
                            codec.x[k].present)
    /\ codec.pc = "done"
         => \A k \in 1..Len(codec.back.fields) : \A j \in 1..(k - 1) :
              (codec.def[k].cond /\ codec.def[j].kind = "flags"
                 /\ codec.def[j].name = codec.def[k].name)
                => (codec.back.fields[k].present
                      <=> BitSet(codec.bytes[WordAt(codec.def, codec.x, j)],
                                 codec.def[k].index))

====
